---------------------------- MODULE Spec2Model ----------------------------
(***************************************************************************)
(* Video-Summary browser extension: the hand-off pipeline.                  *)
(*                                                                          *)
(*   content page (platform adapter)  --storage-->  AI page (auto-fill)     *)
(*                                                                          *)
(* Modelled parts:                                                          *)
(*   - AIBridge.shouldOpenTab and the auto-fill agent's auto-submit         *)
(*     decision (pure functions of the settings record);                    *)
(*   - the button activation (handleSummaryClick of the four adapters) and  *)
(*     AIBridge.execute;                                                    *)
(*   - the auto-fill agent (entry IIFE, waitForElement, autoFill<Provider>);*)
(*   - button insertion (attemptButtonInsertion, navigation observer).      *)
(* chrome.storage.local is the only state shared between page contexts;    *)
(* every get/set/remove is atomic, and the continuation of an awaited call  *)
(* is a later step of the calling context.                                  *)
(***************************************************************************)
EXTENDS Naturals, FiniteSets, Sequences, TLC

(***************************************************************************)
(* Values                                                                   *)
(***************************************************************************)
\* JS values of a settings flag: true, false, or the key is absent.
Tri == {"true", "false", "undefined"}

Platforms == {"youtube", "udemy", "coursera", "datacamp"}

AiModes == {"global", "custom", "undefined"}

\* One entry of settings.serviceSettings: the current object shape
\* {model, promptId, autoSubmit}, the legacy shape (a model-name string), or absent.
SvcEntry ==
    [kind : {"object"}, autoSubmit : Tri]
      \cup {[kind |-> "string", autoSubmit |-> "undefined"],
            [kind |-> "undefined", autoSubmit |-> "undefined"]}

\* A settings record is [aiMode, autoFillEnabled, hasServiceSettings,
\* serviceSettings]: the fields the hand-off reads; hasServiceSettings is
\* whether the serviceSettings key is there at all.

DefaultEntry == [kind |-> "object", autoSubmit |-> "true"]

\* DEFAULT_SETTINGS of utils/storage.js (the fields modelled here).
DEFAULT_SETTINGS ==
    [aiMode |-> "global",
     autoFillEnabled |-> "true",
     hasServiceSettings |-> TRUE,
     serviceSettings |-> [s \in Platforms |-> DefaultEntry]]

(***************************************************************************)
(* AIBridge.shouldOpenTab                                                   *)
(***************************************************************************)
\* settings.serviceSettings?.[serviceName]?.autoSubmit
autoSubmitOf(settings, serviceName) ==
    IF ~settings.hasServiceSettings
    THEN "undefined"
    ELSE LET e == settings.serviceSettings[serviceName]
         IN  IF e.kind = "object" THEN e.autoSubmit ELSE "undefined"

\* A variant that falls back to the global flag when the service flag is unset.
shouldOpenTabCrossRead(settings, serviceName) ==
    IF settings.aiMode = "custom"
    THEN LET a == autoSubmitOf(settings, serviceName)
         IN  IF a = "undefined" THEN settings.autoFillEnabled # "false" ELSE a = "true"
    ELSE settings.autoFillEnabled # "false"

\* A variant that hands off whatever the settings say.
shouldOpenTabAlways(settings, serviceName) == TRUE

\* A variant that takes the per-service branch for every mode but 'global'.
shouldOpenTabUnlessGlobal(settings, serviceName) ==
    IF settings.aiMode # "global"
    THEN LET a == autoSubmitOf(settings, serviceName)
         IN  IF a = "undefined" THEN TRUE ELSE a = "true"
    ELSE settings.autoFillEnabled # "false"

shouldOpenTab(settings, serviceName) ==
    IF settings.aiMode = "custom"
    THEN LET a == autoSubmitOf(settings, serviceName)
         IN  IF a = "undefined" THEN TRUE ELSE a = "true"       \* ?? true
    ELSE settings.autoFillEnabled # "false"

(***************************************************************************)
(* Auto-fill agent: the auto-submit decision of the entry function.         *)
(* result is what storage.get returned: the settings fields plus            *)
(* pendingSource ("undefined" when the key is absent).                      *)
(***************************************************************************)
\* result.pendingSource || 'youtube'
pendingSourceOf(src) == IF src = "undefined" THEN "youtube" ELSE src

\* A variant that lets the global flag veto the hand-off in custom mode too.
agentDecideGlobalVeto(settings, src) ==
    IF settings.autoFillEnabled = "false"
    THEN [disabled |-> TRUE, shouldAutoSubmit |-> TRUE]
    ELSE IF settings.aiMode = "custom"
         THEN LET a == autoSubmitOf(settings, pendingSourceOf(src))
              IN  [disabled |-> FALSE,
                   shouldAutoSubmit |-> IF a \in {"true", "false"} THEN a = "true" ELSE TRUE]
         ELSE [disabled |-> FALSE, shouldAutoSubmit |-> TRUE]

\* disabled: the agent removes the record and stops without injecting.
agentDecide(settings, src) ==
    IF settings.aiMode = "custom"
    THEN LET a == autoSubmitOf(settings, pendingSourceOf(src))
         IN  [disabled |-> FALSE,
              shouldAutoSubmit |-> IF a \in {"true", "false"} THEN a = "true" ELSE TRUE]
    ELSE IF settings.autoFillEnabled = "false"
         THEN [disabled |-> TRUE, shouldAutoSubmit |-> TRUE]
         ELSE [disabled |-> FALSE, shouldAutoSubmit |-> TRUE]


(***************************************************************************)
(* Bounds                                                                   *)
(***************************************************************************)
\* Number of prompts the content page builds in one behaviour (record ids).
MaxRecords == 2

\* Auto-fill agent runs (AI tabs) that may be alive at the same time.
Runs == {"tabA", "tabB"}

\* window.location.hostname as the entry function classifies it
\* ("other": none of the four includes() tests matches).
Hosts == {"gemini", "grok", "chatgpt", "claude", "other"}

\* What the located input element is: a <textarea>, a contenteditable
\* element, or an element that is neither (e.g. div[role="textbox"]).
ElemKinds == {"textarea", "editable", "other"}

(***************************************************************************)
(* State                                                                    *)
(***************************************************************************)
VARIABLES
    \* chrome.storage.local
    settings,       \* the settings keys
    pending,        \* {pendingPrompt, pendingSource}; id 0: keys absent
    \* content page (one adapter instance)
    platform,       \* PLATFORM_NAME of the adapter
    cpc,            \* position of the click handler
    cSettings,      \* the settings object the handler read
    cPrompt,        \* prompt built by the current activation (0: none)
    btnDisabled,    \* btn.disabled
    restoreTimer,   \* setTimeout(() => _setButtonLoading(btn, false), 500) pending
    clipboard,      \* prompt id on the system clipboard (0: something else)
    nextId,         \* next prompt id
    act,            \* what the current activation has done so far
    \* auto-fill agent runs
    apc,            \* position of each run
    provider,       \* the autoFill<Provider> function the run is in ("none": in none)
    aResult,        \* what storage.get returned to the run
    aSubmit,        \* shouldAutoSubmit
    wfe,            \* waitForElement promise: none / pending / element / null
    observer,       \* MutationObserver of waitForElement connected
    wTimer,         \* setTimeout of waitForElement pending
    run,            \* what the run has done so far
    note,           \* last showNotification of the run
    injectCount,    \* per record id: how many runs injected it
    \* the two decisions applied to an arbitrary settings record
    qSettings, qService, qSource, qOpen, qAgent,
    \* button insertion (the adapter of `platform`)
    buttons,        \* elements with id BUTTON_ID in the document
    anchor,         \* first placement strategy whose anchor is in the DOM ("none")
    videoPage,      \* isVideoPage() / _getVideoId() !== null
    urlChanged,     \* location.href !== this._lastUrl
    insTimers,      \* pending setTimeout(() => this.attemptButtonInsertion(), ...)
    retryCount,     \* DataCamp: this._retryCount
    mutated,        \* mutation records not yet delivered to the navigation observer
    misses,         \* consecutive attemptButtonInsertion runs that found no anchor
    retryTimers,    \* the pending insertion timers that are 1000 ms retries
    \* options page (prompt library)
    libPrompts,        \* currentSettings.prompts
    libService,        \* currentSettings.serviceSettings[service].promptId
    selectedPromptId,  \* selectedPromptId ("null": none)
    stPrompts,         \* chrome.storage.local prompts
    stService,         \* chrome.storage.local serviceSettings[service].promptId
    issued,            \* ids generateId() has returned
    libOp,             \* the handler that ran last
    libGlobal,         \* currentSettings.globalPromptId
    stGlobal,          \* globalPromptId in storage
    \* utils/storage.js getSettings / migrateSettings
    store,          \* chrome.storage.local, the settings keys in full
    legacy,         \* what storage held before the first getSettings call
    clock,          \* Date.now()
    gs,             \* per page context: the getSettings call in progress
    \* pure helpers called on their own
    fnIn,           \* the arguments of the call
    fnOut,          \* [done, val]: whether it has returned, and what
    \* hand-off writes of two content pages
    hPlatform,      \* per page: PLATFORM_NAME of its adapter
    hpc,            \* per page: where its AIBridge.execute is
    hPrompt,        \* per page: the prompt of its activation
    hNext,          \* next prompt
    writes,         \* the hand-off writes completed since the last consumption
    \* scrollToLoadAllSegments
    scroll,         \* the locals of the scroll loop, and where it is
    \* the summary button and the activations in flight on one page
    flight,         \* the button element in the DOM, and the running handlers
    \* background service worker
    dash            \* dashboardWindowId, the open windows, the click handlers

storageVars == <<settings, pending>>
pageVars == <<platform, cpc, cSettings, cPrompt, btnDisabled, restoreTimer,
              clipboard, nextId, act>>
agentVars == <<apc, provider, aResult, aSubmit, wfe, observer, wTimer, run, note,
               injectCount>>
pureVars == <<qSettings, qService, qSource, qOpen, qAgent>>
insertVars == <<buttons, anchor, videoPage, urlChanged, insTimers, retryCount, mutated,
                misses, retryTimers>>
optionsVars == <<libPrompts, libService, selectedPromptId, stPrompts, stService, issued,
                 libOp, libGlobal, stGlobal>>
migrateVars == <<store, legacy, clock, gs>>
fnVars == <<fnIn, fnOut>>
handVars == <<hPlatform, hpc, hPrompt, hNext, writes>>
scrollVars == <<scroll>>
lateVars == <<flight, dash>>
restVars == <<optionsVars, migrateVars, fnVars, handVars, scrollVars, lateVars>>
baseVars == <<storageVars, pageVars, agentVars, pureVars, insertVars>>
otherThanOptions == <<baseVars, migrateVars, fnVars, handVars, scrollVars, lateVars>>
otherThanMigrate == <<baseVars, optionsVars, fnVars, handVars, scrollVars, lateVars>>
otherThanScroll == <<baseVars, optionsVars, migrateVars, fnVars, handVars, lateVars>>
otherThanLate == <<baseVars, optionsVars, migrateVars, fnVars, handVars, scrollVars>>
otherThanFn == <<baseVars, optionsVars, migrateVars, handVars, scrollVars, lateVars>>
vars == <<storageVars, pageVars, agentVars, pureVars, insertVars, restVars>>

NoPending == [id |-> 0, source |-> "undefined"]

\* Nothing done yet in this activation.
\* What getTranscript can resolve to: null/undefined, or a string (a
\* sequence of characters; " " stands for any whitespace character).
NullTranscript == [null |-> TRUE, text |-> <<>>]
Transcripts ==
    {NullTranscript} \cup
    {[null |-> FALSE, text |-> s] :
        s \in {<<>>, <<" ">>, <<" ", " ">>, <<"a">>, <<" ", "a", " ">>}}

FreshAct == [copied |-> FALSE, copyOk |-> FALSE, wrote |-> 0,
             opened |-> FALSE, openedWithRecord |-> FALSE, ended |-> "no",
             toast |-> "none", log |-> <<>>,
             extracted |-> FALSE, transcript |-> NullTranscript,
             primary |-> "none", readRejected |-> FALSE, writeRejected |-> FALSE]

\* Nothing done yet in this run.
FreshRun == [injected |-> FALSE, textSet |-> FALSE, cleared |-> FALSE,
             clicked |-> FALSE, ended |-> "no"]


(***************************************************************************)
(* Content page: the click handler (handleSummaryClick of the adapters,     *)
(* then AIBridge.execute).  Each action runs from one await to the next.    *)
(***************************************************************************)
\* Adapters whose handler first opens the transcript panel.
OpensTranscript == {"youtube", "udemy", "datacamp"}

\* Adapters whose _autoOpenTranscript has no try/catch of its own.
OpenMayThrow == {"datacamp"}

\* The handler returns with the button clickable again:
\* this.notification.show(message, type), then _setButtonLoading(btn, false).
\* act.toast is the last notification the activation has shown.
finish(type, how) ==
    /\ btnDisabled' = FALSE
    /\ cpc' = "idle"
    /\ act' = [act EXCEPT !.ended = how, !.toast = type]

\* A catch block that reports the error and leaves the button as it is.
onErrorNoRestore ==
    /\ btnDisabled' = btnDisabled
    /\ cpc' = "idle"
    /\ act' = [act EXCEPT !.ended = "error", !.toast = "error"]

\* catch (error) { notification.show(error); _setButtonLoading(btn, false); }
onError == finish("error", "error")

\* Adapters whose pauseVideo calls video.pause() outside any try/catch; the
\* others catch what their pause attempt throws and return false.
PauseMayThrow == {"youtube"}

\* e.preventDefault ... pauseVideo(); try { _setButtonLoading(btn, true); ...
\* up to the first await.  open: the transcript panel is already open.
\* pauseVideo returns (the video paused, or nothing done), or throws: the
\* call stands before the try, so the exception leaves the handler.
Click ==
    /\ cpc = "idle"
    /\ ~btnDisabled
    /\ nextId <= MaxRecords
    /\ \E open \in BOOLEAN, pause \in {"returns", "throws"} :
         LET opensFirst == platform \in OpensTranscript /\ ~open
             shown == IF platform \in {"youtube", "udemy"} /\ open THEN "none" ELSE "info"
         IN  /\ pause = "throws" => platform \in PauseMayThrow
             /\ IF pause = "throws"
                THEN /\ act' = [FreshAct EXCEPT !.ended = "escaped", !.log = <<"pause">>]
                     /\ UNCHANGED <<btnDisabled, cpc>>
                ELSE /\ btnDisabled' = TRUE
                     /\ act' = [FreshAct EXCEPT !.toast = shown, !.log = <<"pause">>]
                     /\ cpc' = IF opensFirst THEN "opening" ELSE "settings"
    /\ cPrompt' = 0
    /\ UNCHANGED <<platform, cSettings, restoreTimer, clipboard, nextId>>
    /\ UNCHANGED <<storageVars, agentVars, pureVars, insertVars, restVars>>

\* const opened = await this._autoOpenTranscript(); if (!opened) {...return}
OpenTranscript ==
    /\ cpc = "opening"
    /\ \E out \in {"opened", "notOpened", "throws"} :
         /\ out = "throws" => platform \in OpenMayThrow
         /\ CASE out = "opened" ->
                   /\ cpc' = "settings"
                   /\ UNCHANGED <<btnDisabled, act>>
              [] out = "notOpened" -> finish("error", "notOpened")
              [] out = "throws" -> onError
    /\ UNCHANGED <<platform, cSettings, cPrompt, restoreTimer, clipboard, nextId>>
    /\ UNCHANGED <<storageVars, agentVars, pureVars, insertVars, restVars>>

\* getSettings(): return { ...DEFAULT_SETTINGS, ...raw }; on a failed read
\* the catch returns DEFAULT_SETTINGS.
getSettings(raw, ok) ==
    IF ok
    THEN [aiMode |-> IF raw.aiMode = "undefined" THEN DEFAULT_SETTINGS.aiMode
                     ELSE raw.aiMode,
          autoFillEnabled |-> IF raw.autoFillEnabled = "undefined"
                              THEN DEFAULT_SETTINGS.autoFillEnabled
                              ELSE raw.autoFillEnabled,
          hasServiceSettings |-> TRUE,
          serviceSettings |-> IF raw.hasServiceSettings THEN raw.serviceSettings
                              ELSE DEFAULT_SETTINGS.serviceSettings]
    ELSE DEFAULT_SETTINGS

\* const settings = await window.StorageUtils.getSettings();
ReadSettings ==
    /\ cpc = "settings"
    /\ \E ok \in BOOLEAN :
         /\ cSettings' = getSettings(settings, ok)
         /\ act' = [act EXCEPT !.readRejected = ~ok]
    /\ cpc' = "extract"
    /\ UNCHANGED <<platform, cPrompt, btnDisabled, restoreTimer, clipboard, nextId>>
    /\ UNCHANGED <<storageVars, agentVars, pureVars, insertVars, restVars>>

\* String.prototype.trim: strips whitespace from both ends.
RECURSIVE trim(_)
trim(s) ==
    IF s = <<>> THEN s
    ELSE IF Head(s) = " " THEN trim(Tail(s))
    ELSE IF s[Len(s)] = " " THEN trim(SubSeq(s, 1, Len(s) - 1))
    ELSE s

\* An emptiness test without the trim.
isEmptyTranscriptNoTrim(t) == t.null \/ t.text = <<>>

\* !transcript || transcript.trim() === ''
isEmptyTranscript(t) == t.null \/ t.text = <<>> \/ trim(t.text) = <<>>

\* const transcript = await this.getTranscript(settings);
\* if (!transcript || transcript.trim() === '') {...return}
Extract ==
    /\ cpc = "extract"
    /\ \/ \E t \in Transcripts :
            IF isEmptyTranscript(t)
            THEN /\ btnDisabled' = FALSE
                 /\ cpc' = "idle"
                 /\ act' = [act EXCEPT !.ended = "empty", !.toast = "error",
                                       !.extracted = TRUE, !.transcript = t]
            ELSE /\ cpc' = "prompt"
                 /\ act' = [act EXCEPT !.log = Append(@, "extract"),
                                       !.extracted = TRUE, !.transcript = t]
                 /\ UNCHANGED btnDisabled
       \/ onError
    /\ UNCHANGED <<platform, cSettings, cPrompt, restoreTimer, clipboard, nextId>>
    /\ UNCHANGED <<storageVars, agentVars, pureVars, insertVars, restVars>>

\* truncateText; promptTemplate = await getPromptForService(...);
\* prompt = generatePrompt(template, {title, url, transcript}); then
\* copyToClipboard(prompt) is called.  A throw in between lands in the catch.
BuildPrompt ==
    /\ cpc = "prompt"
    /\ \E throws \in BOOLEAN :
         IF throws
         THEN /\ onError
              /\ UNCHANGED <<cPrompt, nextId>>
         ELSE /\ cPrompt' = nextId
              /\ nextId' = nextId + 1
              /\ cpc' = "copy"
              /\ act' = [act EXCEPT !.log = Append(@, "prompt")]
              /\ UNCHANGED btnDisabled
    /\ UNCHANGED <<platform, cSettings, restoreTimer, clipboard>>
    /\ UNCHANGED <<storageVars, agentVars, pureVars, insertVars, restVars>>

\* What navigator.clipboard.writeText and the textarea/execCommand('copy')
\* path can do.
PrimaryOutcomes == {"resolves", "rejects"}
FallbackOutcomes == {"true", "false", "throws"}

\* utils/clipboard.js fallbackCopyToClipboard: returns execCommand's result,
\* false when anything in it throws.
fallbackCopyToClipboard(fb) == IF fb = "throws" THEN "false" ELSE fb

\* A copy without the catch around the primary write.
copyToClipboardNoFallback(primary, fb) ==
    IF primary = "resolves" THEN "true" ELSE "rejected"

\* utils/clipboard.js copyToClipboard: await navigator.clipboard.writeText,
\* return true; on rejection return fallbackCopyToClipboard(text).
\* The result is what the returned promise does: "true", "false", "rejected".
copyToClipboard(primary, fb) ==
    IF primary = "resolves" THEN "true" ELSE fallbackCopyToClipboard(fb)

\* A variant that starts the hand-off without awaiting the copy.
CopyNotAwaited ==
    /\ cpc = "copy"
    /\ IF shouldOpenTab(cSettings, platform)
       THEN /\ cpc' = "writing"
            /\ act' = [act EXCEPT !.log = Append(@, "handoff")]
            /\ UNCHANGED btnDisabled
       ELSE /\ btnDisabled' = FALSE
            /\ cpc' = "idle"
            /\ act' = [act EXCEPT !.ended = "copied", !.toast = "success",
                                  !.log = Append(@, "handoff")]
    /\ UNCHANGED <<platform, cSettings, cPrompt, restoreTimer, clipboard, nextId>>
    /\ UNCHANGED <<storageVars, agentVars, pureVars, insertVars, restVars>>

\* await copyToClipboard(prompt); then AIBridge.execute up to its first await:
\* if (!shouldOpenTab) return {opened: false} -> "Copied!" toast, button restored.
Copy ==
    /\ cpc = "copy"
    /\ \E primary \in PrimaryOutcomes, fb \in FallbackOutcomes :
         LET result == copyToClipboard(primary, fb) IN
         /\ clipboard' = IF result = "true" THEN cPrompt ELSE clipboard
         /\ IF result = "rejected"
            THEN onError
            ELSE IF shouldOpenTab(cSettings, platform)
            THEN /\ cpc' = "writing"
                 /\ act' = [act EXCEPT !.copied = TRUE, !.copyOk = (result = "true"),
                                       !.primary = primary,
                                       !.log = @ \o <<"copy", "handoff">>]
                 /\ UNCHANGED btnDisabled
            ELSE /\ btnDisabled' = FALSE
                 /\ cpc' = "idle"
                 /\ act' = [act EXCEPT !.copied = TRUE, !.copyOk = (result = "true"),
                                       !.primary = primary,
                                       !.ended = "copied", !.toast = "success",
                                       !.log = @ \o <<"copy", "handoff">>]
    /\ UNCHANGED <<platform, cSettings, cPrompt, restoreTimer, nextId>>
    /\ UNCHANGED <<storageVars, agentVars, pureVars, insertVars, restVars>>

\* The record AIBridge.execute stores.
pendingRecord(prompt, serviceName) == [id |-> prompt, source |-> serviceName]

\* A rejected write that nothing catches: execute goes on to open the tab.
WritePendingUncaught ==
    /\ cpc = "writing"
    /\ \E ok \in BOOLEAN :
         /\ pending' = IF ok THEN pendingRecord(cPrompt, platform) ELSE pending
         /\ cpc' = "written"
         /\ act' = IF ok THEN [act EXCEPT !.wrote = cPrompt, !.log = Append(@, "write")]
                   ELSE [act EXCEPT !.writeRejected = TRUE]
         /\ UNCHANGED btnDisabled
    /\ UNCHANGED <<platform, cSettings, cPrompt, restoreTimer, clipboard, nextId>>
    /\ UNCHANGED <<settings, agentVars, pureVars, insertVars, restVars>>

\* await chrome.storage.local.set({pendingPrompt: prompt, pendingSource: serviceName})
\* takes effect, or rejects (the handler's catch runs).
WritePending ==
    /\ cpc = "writing"
    /\ \E ok \in BOOLEAN :
         IF ok
         THEN /\ pending' = pendingRecord(cPrompt, platform)
              /\ cpc' = "written"
              /\ act' = [act EXCEPT !.wrote = cPrompt, !.log = Append(@, "write")]
              /\ UNCHANGED btnDisabled
         ELSE /\ btnDisabled' = FALSE
              /\ cpc' = "idle"
              /\ act' = [act EXCEPT !.ended = "error", !.toast = "error",
                                    !.writeRejected = TRUE]
              /\ UNCHANGED pending
    /\ UNCHANGED <<platform, cSettings, cPrompt, restoreTimer, clipboard, nextId>>
    /\ UNCHANGED <<settings, agentVars, pureVars, insertVars, restVars>>

\* const url = getTargetUrl(...); if (url) window.open(url, '_blank');
\* return {opened: true} -> "Opening AI..." toast, button restored after 500 ms.
OpenTab ==
    /\ cpc = "written"
    /\ act' = [act EXCEPT !.opened = TRUE, !.log = Append(@, "open"),
                          !.openedWithRecord = (pending = pendingRecord(cPrompt, platform)),
                          !.ended = "opening", !.toast = "success"]
    /\ restoreTimer' = TRUE
    /\ cpc' = "restoring"
    /\ UNCHANGED <<platform, cSettings, cPrompt, btnDisabled, clipboard, nextId>>
    /\ UNCHANGED <<storageVars, agentVars, pureVars, insertVars, restVars>>

\* setTimeout(() => this._setButtonLoading(btn, false), 500) fires.
RestoreTimerFires ==
    /\ cpc = "restoring"
    /\ restoreTimer
    /\ restoreTimer' = FALSE
    /\ btnDisabled' = FALSE
    /\ cpc' = "idle"
    /\ UNCHANGED <<platform, cSettings, cPrompt, clipboard, nextId, act>>
    /\ UNCHANGED <<storageVars, agentVars, pureVars, insertVars, restVars>>

PageNext ==
    \/ Click
    \/ OpenTranscript
    \/ ReadSettings
    \/ Extract
    \/ BuildPrompt
    \/ Copy
    \/ WritePending
    \/ OpenTab
    \/ RestoreTimerFires




(***************************************************************************)
(* Auto-fill agent (one run per AI page load).                              *)
(***************************************************************************)
RecordIds == 1..MaxRecords

\* Element kinds the provider's selector list can match.
KindsOf(h) ==
    CASE h = "claude" -> {"editable", "other"}
      [] OTHER -> ElemKinds

\* Whether autoFill<Provider> puts the prompt into an element of that kind.
\*   Gemini: contenteditable -> innerHTML, otherwise execCommand('insertText')
\*           on the focused element (needs an editable element);
\*   Grok: TEXTAREA -> value, contenteditable -> innerText, otherwise nothing;
\*   ChatGPT, Claude: ProseMirror / contenteditable branch, otherwise nothing.
textSet(h, kind) ==
    CASE h = "claude" -> kind = "editable"
      [] OTHER -> kind \in {"textarea", "editable"}

\* The provider function returns after showNotification(n).
agentEnd(r, n, how) ==
    /\ note' = [note EXCEPT ![r] = n]
    /\ provider' = [provider EXCEPT ![r] = "none"]
    /\ apc' = [apc EXCEPT ![r] = "done"]
    /\ run' = [run EXCEPT ![r].ended = how]

\* Script start: await chrome.storage.local.get([...]) returns a snapshot.
AgentRead(r) ==
    /\ apc[r] = "off"
    /\ aResult' = [aResult EXCEPT ![r] = [pending |-> pending, settings |-> settings]]
    /\ apc' = [apc EXCEPT ![r] = "decide"]
    /\ UNCHANGED <<provider, aSubmit, wfe, observer, wTimer, run, note, injectCount>>
    /\ UNCHANGED <<storageVars, pageVars, pureVars, insertVars, restVars>>

\* A waitForElement whose timeout is never armed.
waitForElementNoTimer(r, present) ==
    IF present
    THEN /\ wfe' = [wfe EXCEPT ![r] = "element"]
         /\ apc' = [apc EXCEPT ![r] = "found"]
         /\ UNCHANGED <<observer, wTimer>>
    ELSE /\ wfe' = [wfe EXCEPT ![r] = "pending"]
         /\ observer' = [observer EXCEPT ![r] = TRUE]
         /\ wTimer' = wTimer
         /\ apc' = [apc EXCEPT ![r] = "waiting"]

\* waitForElement(selectors, 10000) up to its return: resolves at once when an
\* element is already there, otherwise connects the observer and sets the timer.
waitForElement(r, present) ==
    IF present
    THEN /\ wfe' = [wfe EXCEPT ![r] = "element"]
         /\ apc' = [apc EXCEPT ![r] = "found"]
         /\ UNCHANGED <<observer, wTimer>>
    ELSE /\ wfe' = [wfe EXCEPT ![r] = "pending"]
         /\ observer' = [observer EXCEPT ![r] = TRUE]
         /\ wTimer' = [wTimer EXCEPT ![r] = TRUE]
         /\ apc' = [apc EXCEPT ![r] = "waiting"]

\* Entry function after the read: no pending prompt -> return; the auto-submit
\* decision; global auto-fill off -> remove the record and return; provider
\* detection by hostname; autoFill<Provider> up to waitForElement.
AgentDecide(r) ==
    /\ apc[r] = "decide"
    /\ LET res == aResult[r]
           d == agentDecide(res.settings, res.pending.source)
       IN  IF res.pending.id = 0
           THEN /\ apc' = [apc EXCEPT ![r] = "done"]
                /\ run' = [run EXCEPT ![r].ended = "noPending"]
                /\ UNCHANGED <<provider, aSubmit, wfe, observer, wTimer>>
           ELSE IF d.disabled
           THEN /\ apc' = [apc EXCEPT ![r] = "removing"]
                /\ UNCHANGED <<provider, aSubmit, wfe, observer, wTimer, run>>
           ELSE \E h \in Hosts :
                  /\ aSubmit' = [aSubmit EXCEPT ![r] = d.shouldAutoSubmit]
                  /\ IF h = "other"
                     THEN /\ apc' = [apc EXCEPT ![r] = "done"]
                          /\ run' = [run EXCEPT ![r].ended = "noProvider"]
                          /\ UNCHANGED <<provider, wfe, observer, wTimer>>
                     ELSE /\ provider' = [provider EXCEPT ![r] = h]
                          /\ \E present \in BOOLEAN : waitForElement(r, present)
                          /\ UNCHANGED run
    /\ UNCHANGED <<aResult, note, injectCount>>
    /\ UNCHANGED <<storageVars, pageVars, pureVars, insertVars, restVars>>

\* Global auto-fill off: await chrome.storage.local.remove([...]); return.
AgentRemoveDisabled(r) ==
    /\ apc[r] = "removing"
    /\ pending' = NoPending
    /\ apc' = [apc EXCEPT ![r] = "done"]
    /\ run' = [run EXCEPT ![r].cleared = TRUE, ![r].ended = "disabled"]
    /\ UNCHANGED <<provider, aResult, aSubmit, wfe, observer, wTimer, note, injectCount>>
    /\ UNCHANGED <<settings, pageVars, pureVars, insertVars, restVars>>

\* The AI page's DOM changes while the observer is connected and an element
\* now matches: observer.disconnect(); resolve(element).
AgentDomMutation(r) ==
    /\ observer[r]
    /\ observer' = [observer EXCEPT ![r] = FALSE]
    /\ wfe' = [wfe EXCEPT ![r] = IF @ = "pending" THEN "element" ELSE @]
    /\ apc' = [apc EXCEPT ![r] = IF wfe[r] = "pending" THEN "found" ELSE @]
    /\ UNCHANGED <<provider, aResult, aSubmit, wTimer, run, note, injectCount>>
    /\ UNCHANGED <<storageVars, pageVars, pureVars, insertVars, restVars>>

\* setTimeout(() => { observer.disconnect(); resolve(null); }, timeout) fires;
\* resolve is a no-op on a promise that is already resolved.
AgentTimeout(r) ==
    /\ wTimer[r]
    /\ wTimer' = [wTimer EXCEPT ![r] = FALSE]
    /\ observer' = [observer EXCEPT ![r] = FALSE]
    /\ wfe' = [wfe EXCEPT ![r] = IF @ = "pending" THEN "null" ELSE @]
    /\ apc' = [apc EXCEPT ![r] = IF wfe[r] = "pending" THEN "notFound" ELSE @]
    /\ UNCHANGED <<provider, aResult, aSubmit, run, note, injectCount>>
    /\ UNCHANGED <<storageVars, pageVars, pureVars, insertVars, restVars>>

\* if (!inputElement) { showNotification('Could not auto-fill...'); return; }
AgentGiveUp(r) ==
    /\ apc[r] = "notFound"
    /\ agentEnd(r, "manual", "notFound")
    /\ UNCHANGED <<aResult, aSubmit, wfe, observer, wTimer, injectCount>>
    /\ UNCHANGED <<storageVars, pageVars, pureVars, insertVars, restVars>>

\* try { focus(); await sleep(100); <put the prompt into the element>;
\* chrome.storage.local.remove(...) is called } catch { 'Auto-fill failed' }
AgentInject(r) ==
    /\ apc[r] = "found"
    /\ \E kind \in KindsOf(provider[r]), throws \in BOOLEAN :
         IF throws
         THEN /\ agentEnd(r, "failed", "exception")
              /\ UNCHANGED injectCount
         ELSE /\ run' = [run EXCEPT ![r].injected = TRUE,
                                    ![r].textSet = textSet(provider[r], kind)]
              /\ injectCount' =
                   [injectCount EXCEPT ![aResult[r].pending.id] =
                      IF textSet(provider[r], kind) THEN @ + 1 ELSE @]
              /\ apc' = [apc EXCEPT ![r] = "clearing"]
              /\ UNCHANGED <<provider, note>>
    /\ UNCHANGED <<aResult, aSubmit, wfe, observer, wTimer>>
    /\ UNCHANGED <<storageVars, pageVars, pureVars, insertVars, restVars>>

\* A variant that goes on to the submit step without removing the record.
AgentClearSkipped(r) ==
    /\ apc[r] = "clearing"
    /\ apc' = [apc EXCEPT ![r] = "submit"]
    /\ UNCHANGED <<provider, aResult, aSubmit, wfe, observer, wTimer, run, note, injectCount>>
    /\ UNCHANGED <<storageVars, pageVars, pureVars, insertVars, restVars>>

\* await chrome.storage.local.remove(['pendingPrompt', 'pendingSource']) takes
\* effect; then if (shouldAutoSubmit) await sleep(500) else the "review" toast.
AgentClear(r) ==
    /\ apc[r] = "clearing"
    /\ pending' = NoPending
    /\ IF aSubmit[r]
       THEN /\ apc' = [apc EXCEPT ![r] = "submit"]
            /\ run' = [run EXCEPT ![r].cleared = TRUE]
            /\ UNCHANGED <<provider, note>>
       ELSE /\ note' = [note EXCEPT ![r] = "review"]
            /\ provider' = [provider EXCEPT ![r] = "none"]
            /\ apc' = [apc EXCEPT ![r] = "done"]
            /\ run' = [run EXCEPT ![r].cleared = TRUE, ![r].ended = "filled"]
    /\ UNCHANGED <<aResult, aSubmit, wfe, observer, wTimer, injectCount>>
    /\ UNCHANGED <<settings, pageVars, pureVars, insertVars, restVars>>

\* const submitted = await autoSubmit<Provider>(): the send control is clicked
\* when one is found; then the "sent" / "click send" toast, or the catch block.
AgentSubmit(r) ==
    /\ apc[r] = "submit"
    /\ \E out \in {"clicked", "noButton", "throws"} :
         /\ note' = [note EXCEPT ![r] =
                       CASE out = "clicked" -> "sent"
                         [] out = "noButton" -> "clickSend"
                         [] out = "throws" -> "failed"]
         /\ run' = [run EXCEPT ![r].clicked = (out = "clicked"),
                               ![r].ended = IF out = "throws" THEN "exception" ELSE "filled"]
    /\ provider' = [provider EXCEPT ![r] = "none"]
    /\ apc' = [apc EXCEPT ![r] = "done"]
    /\ UNCHANGED <<aResult, aSubmit, wfe, observer, wTimer, injectCount>>
    /\ UNCHANGED <<storageVars, pageVars, pureVars, insertVars, restVars>>

\* The AI tab is closed or reloaded: the page context and its timers are gone.
AgentUnload(r) ==
    /\ apc[r] \in {"done", "waiting"}
    /\ apc' = [apc EXCEPT ![r] = "off"]
    /\ provider' = [provider EXCEPT ![r] = "none"]
    /\ aResult' = [aResult EXCEPT ![r] = [pending |-> NoPending, settings |-> settings]]
    /\ aSubmit' = [aSubmit EXCEPT ![r] = TRUE]
    /\ wfe' = [wfe EXCEPT ![r] = "none"]
    /\ observer' = [observer EXCEPT ![r] = FALSE]
    /\ wTimer' = [wTimer EXCEPT ![r] = FALSE]
    /\ run' = [run EXCEPT ![r] = FreshRun]
    /\ note' = [note EXCEPT ![r] = "none"]
    /\ UNCHANGED injectCount
    /\ UNCHANGED <<storageVars, pageVars, pureVars, insertVars, restVars>>

AgentStep(r) ==
    \/ AgentRead(r)
    \/ AgentDecide(r)
    \/ AgentRemoveDisabled(r)
    \/ AgentDomMutation(r)
    \/ AgentTimeout(r)
    \/ AgentGiveUp(r)
    \/ AgentInject(r)
    \/ AgentClear(r)
    \/ AgentSubmit(r)
    \/ AgentUnload(r)

AgentNext == \E r \in Runs : AgentStep(r)

(***************************************************************************)
(* The hand-off system: one content page, the store, the agent runs.        *)
(***************************************************************************)
\* Settings the options page can have stored, as far as this adapter's
\* hand-off reads them: the mode, the global flag, the adapter's own entry.
ActSettings(p) ==
    {[DEFAULT_SETTINGS EXCEPT !.aiMode = m, !.autoFillEnabled = f,
                              !.serviceSettings[p] = [kind |-> "object", autoSubmit |-> a]] :
        m \in {"global", "custom"}, f \in {"true", "false"}, a \in {"true", "false"}}

NoDecision == [called |-> FALSE, disabled |-> FALSE, shouldAutoSubmit |-> FALSE]

PureIdle ==
    /\ qSettings = DEFAULT_SETTINGS
    /\ qService = "youtube"
    /\ qSource = "undefined"
    /\ qOpen = "none"
    /\ qAgent = NoDecision

\* The button is in place and nothing is scheduled.
InsertIdle ==
    /\ buttons = 1
    /\ anchor = "none"
    /\ videoPage = TRUE
    /\ urlChanged = FALSE
    /\ insTimers = 0
    /\ retryCount = 0
    /\ mutated = FALSE
    /\ misses = 0
    /\ retryTimers = 0

\* options.js DEFAULT_SETTINGS.prompts: the built-in template only
\* (content "d": DEFAULT_PROMPT_CONTENT).
DefaultPrompts == <<[id |-> "default", content |-> <<"d">>]>>

\* The options page is not open; storage holds the default library.
OptionsIdle ==
    /\ libPrompts = DefaultPrompts
    /\ libService = [s \in Platforms |-> "default"]
    /\ selectedPromptId = "null"
    /\ stPrompts = DefaultPrompts
    /\ stService = [s \in Platforms |-> "default"]
    /\ issued = {}
    /\ libOp = "none"
    /\ libGlobal = "default"
    /\ stGlobal = "default"

\* The page contexts that call getSettings.
Contexts == {"c1", "c2"}

ScalarKeys == {"aiMode", "selectedModel", "geminiUrl", "theme", "copyFormat", "showButton",
               "autoFillEnabled"}

\* DEFAULT_SETTINGS: the scalar keys.
DefaultScalars ==
    [aiMode |-> "global", selectedModel |-> "chatgpt", geminiUrl |-> "gemini.google.com/app",
     theme |-> "auto", copyFormat |-> "markdown", showButton |-> "true",
     autoFillEnabled |-> "true"]

\* DEFAULT_PROMPT_CONTENT.
DEFAULT_PROMPT_CONTENT == <<"d">>

\* A serviceSettings entry: absent ("undefined"), a model name ("string", old
\* format) or an object {model, promptId, autoSubmit}.
ServiceDefault ==
    [kind |-> "object", model |-> "chatgpt", promptId |-> "default", autoSubmit |-> "true"]
ServiceAbsent ==
    [kind |-> "undefined", model |-> "undefined", promptId |-> "undefined",
     autoSubmit |-> "undefined"]

\* DEFAULT_SETTINGS in full, as a storage record.
DefaultRecord ==
    [scalars |-> DefaultScalars,
     globalPromptId |-> "default",
     customPrompt |-> [def |-> FALSE, text |-> <<>>],
     hasPrompts |-> TRUE,
     prompts |-> DefaultPrompts,
     hasServiceSettings |-> TRUE,
     services |-> [s \in Platforms |-> ServiceDefault]]

\* No getSettings call in progress.
NoCall == [pc |-> "idle", raw |-> DefaultRecord, out |-> DefaultRecord, how |-> "none"]

\* Storage already in the current format; nobody is reading settings.
MigrateIdle ==
    /\ store = DefaultRecord
    /\ legacy = DefaultRecord
    /\ clock = 1
    /\ gs = [c \in Contexts |-> NoCall]

\* No helper is being called on its own.
FnIdle ==
    /\ fnIn = "none"
    /\ fnOut = [done |-> FALSE, val |-> "none"]

\* The content pages of the hand-off model.
Pages == {"pageA", "pageB"}

\* No second content page; nothing written.
HandIdle ==
    /\ hPlatform = [p \in Pages |-> "youtube"]
    /\ hpc = [p \in Pages |-> "idle"]
    /\ hPrompt = [p \in Pages |-> 0]
    /\ hNext = 1
    /\ writes = <<>>

\* scrollToLoadAllSegments has not been called.
ScrollIdle ==
    scroll = [pc |-> "idle", i |-> 0, previousScrollHeight |-> 0, stableRounds |-> 0,
              unchanged |-> 0, found |-> FALSE]

\* Button elements created on one page.
MaxButtons == 3

\* Icon-click handlers of the background worker that can be running at once.
MaxClicks == 2

\* Dashboard windows created.
MaxWindows == 3

ButtonElems == 1..MaxButtons

ClickHandlers == 1..MaxClicks

\* No button inserted and no activation started; the worker just started, no
\* dashboard window open.
LateIdle ==
    /\ flight = [btn |-> 0, created |-> 0,
                 disabled |-> [b \in ButtonElems |-> FALSE],
                 pc |-> [b \in ButtonElems |-> "none"]]
    /\ dash = [dashboardWindowId |-> 0, open |-> {}, created |-> 0,
               hpc |-> [h \in ClickHandlers |-> "idle"],
               win |-> [h \in ClickHandlers |-> 0]]

RestIdle == OptionsIdle /\ MigrateIdle /\ FnIdle /\ HandIdle /\ ScrollIdle /\ LateIdle

PageIdle ==
    /\ cpc = "idle"
    /\ cSettings = settings
    /\ cPrompt = 0
    /\ btnDisabled = FALSE
    /\ restoreTimer = FALSE
    /\ clipboard = 0
    /\ nextId = 1
    /\ act = FreshAct

AgentsOff ==
    /\ apc = [r \in Runs |-> "off"]
    /\ provider = [r \in Runs |-> "none"]
    /\ aResult = [r \in Runs |-> [pending |-> NoPending, settings |-> settings]]
    /\ aSubmit = [r \in Runs |-> TRUE]
    /\ wfe = [r \in Runs |-> "none"]
    /\ observer = [r \in Runs |-> FALSE]
    /\ wTimer = [r \in Runs |-> FALSE]
    /\ run = [r \in Runs |-> FreshRun]
    /\ note = [r \in Runs |-> "none"]
    /\ injectCount = [i \in 0..MaxRecords |-> 0]

\* Storage at its defaults, the content page idle, no agent, no insertion pending.
BaseIdle ==
    /\ settings = DEFAULT_SETTINGS
    /\ pending = NoPending
    /\ platform = "youtube"
    /\ PageIdle
    /\ AgentsOff
    /\ PureIdle
    /\ InsertIdle

Init ==
    /\ platform \in Platforms
    /\ settings \in ActSettings(platform)
    /\ pending = NoPending
    /\ PageIdle
    /\ AgentsOff
    /\ PureIdle
    /\ InsertIdle
    /\ RestIdle

\* The content page and one AI tab.
Next == PageNext \/ AgentStep("tabA")

Spec == Init /\ [][Next]_vars

\* Two AI tabs and a record that an activation has written (the settings may
\* have been changed on the options page since).
InitAgents ==
    /\ platform \in Platforms
    /\ settings \in ActSettings(platform)
    /\ pending = pendingRecord(1, platform)
    /\ cpc = "idle"
    /\ cSettings = DEFAULT_SETTINGS
    /\ cPrompt = 1
    /\ btnDisabled = FALSE
    /\ restoreTimer = FALSE
    /\ clipboard = 1
    /\ nextId = 2
    /\ act = [copied |-> TRUE, copyOk |-> TRUE, wrote |-> 1, opened |-> TRUE,
              openedWithRecord |-> TRUE, ended |-> "opening", toast |-> "success",
              log |-> <<"pause", "extract", "prompt", "copy", "handoff", "write", "open">>,
              extracted |-> TRUE, transcript |-> [null |-> FALSE, text |-> <<"a">>],
              primary |-> "resolves", readRejected |-> FALSE, writeRejected |-> FALSE]
    /\ AgentsOff
    /\ PureIdle
    /\ InsertIdle
    /\ RestIdle

SpecAgents == InitAgents /\ [][AgentNext]_vars

(***************************************************************************)
(* The two decisions as functions of the stored settings: each is applied   *)
(* once to an arbitrary settings record.                                    *)
(***************************************************************************)
\* Settings records the options page, a legacy version or a partial write can
\* have stored: any mode and flag, serviceSettings present or not, the youtube
\* and udemy entries of any shape.
QSettings ==
    {[aiMode |-> m, autoFillEnabled |-> f, hasServiceSettings |-> h,
      serviceSettings |-> [s \in Platforms |->
                             CASE s = "youtube" -> e1
                               [] s = "udemy" -> e2
                               [] OTHER -> DefaultEntry]] :
        m \in AiModes, f \in Tri, h \in BOOLEAN, e1 \in SvcEntry, e2 \in SvcEntry}

\* AIBridge.shouldOpenTab(settings, serviceName) is called.
CallShouldOpenTab ==
    /\ qOpen = "none"
    /\ qOpen' = IF shouldOpenTab(qSettings, qService) THEN "true" ELSE "false"
    /\ UNCHANGED <<qSettings, qService, qSource, qAgent>>
    /\ UNCHANGED <<storageVars, pageVars, agentVars, insertVars, restVars>>

\* The agent's entry function decides for a pending record from qSource.
CallAgentDecide ==
    /\ ~qAgent.called
    /\ qAgent' = [called |-> TRUE,
                  disabled |-> agentDecide(qSettings, qSource).disabled,
                  shouldAutoSubmit |-> agentDecide(qSettings, qSource).shouldAutoSubmit]
    /\ UNCHANGED <<qSettings, qService, qSource, qOpen>>
    /\ UNCHANGED <<storageVars, pageVars, agentVars, insertVars, restVars>>

InitDecide ==
    /\ qSettings \in QSettings
    /\ qService \in Platforms
    /\ qSource \in Platforms \cup {"undefined"}
    /\ qOpen = "none"
    /\ qAgent = NoDecision
    /\ platform = "youtube"
    /\ settings = DEFAULT_SETTINGS
    /\ pending = NoPending
    /\ PageIdle
    /\ AgentsOff
    /\ InsertIdle
    /\ RestIdle

NextDecide == CallShouldOpenTab \/ CallAgentDecide

SpecDecide == InitDecide /\ [][NextDecide]_vars

(***************************************************************************)
(* Button insertion: attemptButtonInsertion of the adapters, the delayed    *)
(* initial attempt of init(), and the navigation observer.                  *)
(***************************************************************************)
\* Pending insertion timers tracked (an attempt that would exceed it is not taken).
MaxTimers == 2

\* Consecutive anchor-not-found runs counted (a run that would exceed it is
\* not taken).
MaxMisses == 12

\* DataCamp: if (this._retryCount < 10)
RetryLimit == 10

\* The placement strategies of each adapter, in the order they are tried.
AnchorsOf(p) ==
    CASE p = "youtube" -> {"settingsButton", "subtitlesButton", "rightControlsLeft",
                           "rightControls"}
      [] p = "udemy" -> {"transcriptToggle", "captionsButton", "settingsButton",
                         "controlBar"}
      [] p = "coursera" -> {"saveNoteButton", "captureHighlightContainer"}
      [] p = "datacamp" -> {"gotItButton", "transcriptButton", "controlsArea",
                            "videoHeader", "videoHeaderNoDiv", "videoContainer"}

\* Buttons the strategy puts into the document.  DataCamp's video-header
\* strategy appends to videoHeader.querySelector('div'), if there is one.
inserted(p, a) ==
    IF a = "none" \/ (p = "datacamp" /\ a = "videoHeaderNoDiv") THEN 0 ELSE 1

\* A buttonExists() that never finds the button.
buttonExistsNever == FALSE

\* document.getElementById(this.BUTTON_ID) !== null
buttonExists == buttons > 0

\* attemptButtonInsertion(), called with t timers pending (r of them
\* retries) and m the pending mutation flag: already there / not a video
\* page -> return; the first strategy whose anchor exists inserts; otherwise
\* a retry in 1000 ms (DataCamp: while _retryCount < 10).
attemptButtonInsertion(t, m, r) ==
    IF buttonExists \/ ~videoPage
    THEN /\ insTimers' = t
         /\ retryTimers' = r
         /\ mutated' = m
         /\ UNCHANGED <<buttons, retryCount, misses>>
    ELSE IF anchor # "none"
    THEN /\ buttons' = buttons + inserted(platform, anchor)
         /\ mutated' = (m \/ inserted(platform, anchor) > 0)
         /\ retryCount' = 0
         /\ insTimers' = t
         /\ retryTimers' = r
         /\ misses' = 0
    ELSE IF platform = "datacamp"
    THEN /\ IF retryCount + 1 < RetryLimit
            THEN /\ retryCount' = retryCount + 1
                 /\ insTimers' = t + 1
                 /\ retryTimers' = r + 1
            ELSE /\ retryCount' = 0
                 /\ insTimers' = t
                 /\ retryTimers' = r
         /\ mutated' = m
         /\ misses' = misses + 1
         /\ misses' <= MaxMisses
         /\ UNCHANGED buttons
    ELSE /\ insTimers' = t + 1
         /\ retryTimers' = r + 1
         /\ mutated' = m
         /\ UNCHANGED <<buttons, retryCount, misses>>

\* A setTimeout(() => this.attemptButtonInsertion(), ...) fires: a retry
\* timer, or the 2000 ms timer of init() or of a URL change.
InsertTimerFires ==
    /\ insTimers > 0
    /\ \E retry \in BOOLEAN :
         /\ IF retry THEN retryTimers > 0 ELSE insTimers > retryTimers
         /\ attemptButtonInsertion(insTimers - 1, mutated,
                                   IF retry THEN retryTimers - 1 ELSE retryTimers)
    /\ insTimers' <= MaxTimers
    /\ UNCHANGED <<anchor, videoPage, urlChanged>>
    /\ UNCHANGED <<storageVars, pageVars, agentVars, pureVars, restVars>>

\* The host page changes its DOM: anchors come and go, a re-render may drop
\* the button.
HostMutatesDom ==
    /\ anchor' \in AnchorsOf(platform) \cup {"none"}
    /\ buttons' \in {buttons, 0}
    /\ mutated' = TRUE
    /\ misses' = IF anchor' = "none" THEN misses ELSE 0
    /\ UNCHANGED <<videoPage, urlChanged, insTimers, retryCount, retryTimers>>
    /\ UNCHANGED <<storageVars, pageVars, agentVars, pureVars, restVars>>

\* SPA navigation: the URL changes, to a video page or away from one, and
\* the host's router renders the new page (a childList mutation under body).
Navigate ==
    /\ urlChanged' = TRUE
    /\ videoPage' \in BOOLEAN
    /\ misses' = 0
    /\ mutated' = TRUE
    /\ UNCHANGED <<buttons, anchor, insTimers, retryCount, retryTimers>>
    /\ UNCHANGED <<storageVars, pageVars, agentVars, pureVars, restVars>>

\* The MutationObserver callback of _startNavigationObserver.
NavObserverCallback ==
    /\ mutated
    /\ LET t == IF urlChanged /\ videoPage THEN insTimers + 1 ELSE insTimers
       IN  IF videoPage /\ ~buttonExists
           THEN attemptButtonInsertion(t, FALSE, retryTimers)
           ELSE /\ insTimers' = t
                /\ mutated' = FALSE
                /\ UNCHANGED <<buttons, retryCount, misses, retryTimers>>
    /\ insTimers' <= MaxTimers
    /\ urlChanged' = FALSE
    /\ UNCHANGED <<anchor, videoPage>>
    /\ UNCHANGED <<storageVars, pageVars, agentVars, pureVars, restVars>>

\* After init() with showButton on: the initial attempt is scheduled and the
\* observer is connected.
InitInsert ==
    /\ platform \in Platforms
    /\ buttons = 0
    /\ anchor \in AnchorsOf(platform) \cup {"none"}
    /\ videoPage \in BOOLEAN
    /\ urlChanged = FALSE
    /\ insTimers = 1
    /\ retryCount = 0
    /\ mutated = FALSE
    /\ misses = 0
    /\ retryTimers = 0
    /\ settings = DEFAULT_SETTINGS
    /\ pending = NoPending
    /\ PageIdle
    /\ AgentsOff
    /\ PureIdle
    /\ RestIdle

NextInsert ==
    \/ InsertTimerFires
    \/ HostMutatesDom
    \/ Navigate
    \/ NavObserverCallback

SpecInsert == InitInsert /\ [][NextInsert]_vars

(***************************************************************************)
(* Specifications with fairness: every await of the click handler           *)
(* eventually settles and its timers fire; the agent's timers fire and its  *)
(* synchronous continuations run.  Nothing is assumed about the user        *)
(* (Click) or about the AI page's DOM (AgentDomMutation).                   *)
(***************************************************************************)
PageProgress ==
    \/ OpenTranscript
    \/ ReadSettings
    \/ Extract
    \/ BuildPrompt
    \/ Copy
    \/ WritePending
    \/ OpenTab
    \/ RestoreTimerFires

\* The content page alone.
SpecPageFair == Init /\ [][PageNext]_vars /\ WF_vars(PageProgress)

\* One AI tab and a written record.
SpecWaitFair ==
    /\ InitAgents
    /\ [][AgentStep("tabA")]_vars
    /\ WF_vars(AgentTimeout("tabA"))
    /\ WF_vars(AgentGiveUp("tabA"))

(***************************************************************************)
(* Properties                                                               *)
(***************************************************************************)
\* C1: in custom mode shouldOpenTab returns the same result for every value of
\* autoFillEnabled (true, false, absent), and any two custom-mode records with
\* the same serviceSettings[service].autoSubmit get the same result.
C1_CustomIgnoresGlobalFlag ==
    (qOpen # "none" /\ qSettings.aiMode = "custom") =>
        /\ \A f \in Tri :
             shouldOpenTab([qSettings EXCEPT !.autoFillEnabled = f], qService)
               = (qOpen = "true")
        /\ \A t \in QSettings :
             (t.aiMode = "custom"
                /\ autoSubmitOf(t, qService) = autoSubmitOf(qSettings, qService))
               => shouldOpenTab(t, qService) = (qOpen = "true")

\* shouldOpenTab has answered "no" in custom mode although the global flag is on.
C1_Witness ==
    /\ qOpen = "false"
    /\ qSettings.aiMode = "custom"
    /\ qSettings.autoFillEnabled = "true"

\* C2: no written record is injected into an input widget by more than one
\* agent run.
C2_ConsumedAtMostOnce == \A i \in RecordIds : injectCount[i] <= 1

\* C3: with {aiMode: 'global', autoFillEnabled: false} stored, an activation
\* whose settings read succeeded and that reached the copy step (non-empty
\* transcript) has copied its prompt (the clipboard holds it when a copy
\* mechanism succeeded), has written no pending record, has opened no tab and
\* has ended with the "Copied" outcome; storage holds no record of it.
C3_GlobalOffClipboardOnly ==
    (/\ settings.aiMode = "global"
     /\ settings.autoFillEnabled = "false"
     /\ cSettings = getSettings(settings, TRUE)
     /\ act.copied) =>
        /\ act.copyOk => clipboard = cPrompt
        /\ act.wrote = 0
        /\ ~act.opened
        /\ act.ended = "copied"
        /\ pending.id # cPrompt
        /\ cpc = "idle"

\* Such an activation has ended with the prompt on the clipboard.
C3_Witness ==
    /\ settings.aiMode = "global"
    /\ settings.autoFillEnabled = "false"
    /\ cSettings = getSettings(settings, TRUE)
    /\ act.copied
    /\ act.copyOk
    /\ clipboard = cPrompt
    /\ cPrompt # 0
    /\ pending = NoPending

\* C4: when the activation opens the AI tab, the record it wrote
\* ({pendingPrompt, pendingSource = its platform}) is in storage.
C4_RecordInStorageAtOpen == act.opened => act.openedWithRecord

\* C5: a disabled button is eventually clickable again with a success or error
\* toast shown by the activation, and the handler never returns (position
\* "idle") with the button still disabled.
C5_ButtonAlwaysRestored ==
    /\ btnDisabled ~> (~btnDisabled /\ act.toast \in {"error", "success"})
    /\ [](cpc = "idle" => ~btnDisabled)

\* An activation ended in the catch block and the button is clickable.
C5_Witness ==
    /\ act.ended = "error"
    /\ act.toast = "error"
    /\ ~btnDisabled
    /\ cpc = "idle"

\* C7: a run that read a pending record and has terminated has removed it.
C7_ReadRecordDeleted ==
    \A r \in Runs :
        (apc[r] = "done" /\ aResult[r].pending.id # 0) => run[r].cleared

\* C8: a run is at the submit step, or has clicked the send control, only after
\* it injected and then cleared the record, and only when auto-submit was
\* decided true; a record is cleared by a provider function only after the
\* injection step; across the submit attempt, whatever its outcome, the record
\* the run read is absent from storage.
C8_InjectClearSubmitOrder ==
    /\ [](\A r \in Runs :
            (apc[r] = "submit" \/ run[r].clicked) =>
                (run[r].injected /\ run[r].cleared /\ aSubmit[r]))
    /\ [](\A r \in Runs :
            (run[r].cleared /\ run[r].ended # "disabled") => run[r].injected)
    /\ [][\A r \in Runs :
            (apc[r] = "submit" /\ apc'[r] = "done") =>
                (pending # aResult[r].pending /\ pending' # aResult[r].pending)]_vars

\* A run has injected, cleared and clicked the send control.
C8_Witness ==
    \E r \in Runs :
        /\ run[r].injected
        /\ run[r].cleared
        /\ run[r].clicked
        /\ aSubmit[r]
        /\ pending = NoPending

\* C9: in custom mode the agent's decision (remove without injecting or not,
\* auto-submit or not) is the same for every value of autoFillEnabled; it never
\* takes the "disabled" exit; auto-submit is serviceSettings[pendingSource]
\* .autoSubmit when that is a boolean and true otherwise.
C9_AgentCustomIgnoresGlobalFlag ==
    (qAgent.called /\ qSettings.aiMode = "custom") =>
        /\ \A f \in Tri :
             agentDecide([qSettings EXCEPT !.autoFillEnabled = f], qSource)
               = [disabled |-> qAgent.disabled,
                  shouldAutoSubmit |-> qAgent.shouldAutoSubmit]
        /\ ~qAgent.disabled
        /\ qAgent.shouldAutoSubmit
             = (autoSubmitOf(qSettings, pendingSourceOf(qSource)) # "false")

\* The agent has decided to inject without auto-submit in custom mode although
\* the global flag is off.
C9_Witness ==
    /\ qAgent.called
    /\ qSettings.aiMode = "custom"
    /\ qSettings.autoFillEnabled = "false"
    /\ ~qAgent.disabled
    /\ ~qAgent.shouldAutoSubmit

\* C10: a pending waitForElement is eventually resolved (or its page is gone);
\* a resolved promise keeps its value while the page lives; after null the run
\* ends with the "paste manually" notification, without injecting, with the
\* observer disconnected and no timer left.
C10_WaitForElementTerminates ==
    /\ \A r \in Runs : (wfe[r] = "pending") ~> (wfe[r] # "pending")
    /\ [][\A r \in Runs :
            wfe[r] \in {"element", "null"} => wfe'[r] \in {wfe[r], "none"}]_vars
    /\ [](\A r \in Runs :
            wfe[r] = "null" =>
                /\ ~observer[r]
                /\ ~wTimer[r]
                /\ ~run[r].injected
                /\ apc[r] \in {"notFound", "done"}
                /\ apc[r] = "done" => note[r] = "manual")
    /\ \A r \in Runs : (wfe[r] = "null") ~> (wfe[r] = "none" \/ note[r] = "manual")

\* A wait timed out and the run ended with the manual-paste notification.
C10_Witness ==
    \E r \in Runs :
        /\ wfe[r] = "null"
        /\ apc[r] = "done"
        /\ note[r] = "manual"

\* C6: the document never holds more than one element with the adapter's
\* button id, and no step of the insertion machinery adds a button to a
\* document that already has one.
C6_AtMostOneButton ==
    /\ [](buttons <= 1)
    /\ [][buttons > 0 => buttons' <= buttons]_vars

\* The button is in place while a retry timer and an observer callback are
\* still to run.
C6_Witness ==
    /\ buttons = 1
    /\ insTimers > 0
    /\ mutated

\* The steps of one activation in the order the handler performs them.
StepOrder == <<"pause", "extract", "prompt", "copy", "handoff", "write", "open">>

\* C11: the steps an activation has completed are always an initial part of
\* pause, extract, prompt, copy, hand-off decision, write, open: a step is
\* never completed before the one listed before it, a step is in progress
\* only when every earlier step is completed, and the record write and the
\* tab open happen only after the clipboard copy has finished.
C11_StepsSequential ==
    /\ Len(act.log) <= Len(StepOrder)
    /\ \A i \in 1..Len(act.log) : act.log[i] = StepOrder[i]
    /\ cpc = "extract" => Len(act.log) = 1
    /\ cpc = "prompt" => Len(act.log) = 2
    /\ cpc = "copy" => Len(act.log) = 3
    /\ cpc = "writing" => Len(act.log) = 5
    /\ cpc = "written" => Len(act.log) = 6
    /\ (act.wrote # 0 \/ act.opened) => act.copied

\* An activation has gone through all steps up to the tab open.
C11_Witness ==
    /\ act.log = StepOrder
    /\ act.opened
    /\ act.copied

\* C12: when the extracted transcript is null, empty or only whitespace the
\* activation is over and reported: an error notification is shown, the
\* button is clickable again, the handler is not running and has no timer
\* pending (nothing retries by itself), and the activation has written
\* nothing to the clipboard, written no pending record and opened no tab.
C12_EmptyTranscriptTerminal ==
    (/\ act.extracted
     /\ \/ act.transcript.null
        \/ \A i \in 1..Len(act.transcript.text) : act.transcript.text[i] = " ")
    => /\ act.ended = "empty"
       /\ act.toast = "error"
       /\ cpc = "idle"
       /\ ~btnDisabled
       /\ ~restoreTimer
       /\ ~act.copied
       /\ act.wrote = 0
       /\ ~act.opened
       /\ act.log = <<"pause">>

\* An activation ended on a whitespace-only transcript.
C12_Witness ==
    /\ act.extracted
    /\ act.transcript = [null |-> FALSE, text |-> <<" ", " ">>]
    /\ act.ended = "empty"

\* C13: the step that ends the clipboard copy never ends the activation with
\* an error: whatever the primary write and the fallback do, the copy
\* resolves, the prompt is unchanged, and the activation goes on to the
\* hand-off (the record write when a tab is to be opened, the "copied"
\* ending otherwise).
C13_CopyFailureNeverAborts ==
    [][cpc = "copy" /\ cpc' # "copy"
       => /\ act'.copied
          /\ act'.ended # "error"
          /\ cPrompt' = cPrompt
          /\ act'.log = act.log \o <<"copy", "handoff">>
          /\ cpc' = IF shouldOpenTab(cSettings, platform) THEN "writing" ELSE "idle"]_vars

\* Primary write and fallback both failed, and the tab was opened with the
\* record holding the prompt.
C13_Witness ==
    /\ act.copied
    /\ act.primary = "rejects"
    /\ ~act.copyOk
    /\ act.opened
    /\ act.wrote = cPrompt
    /\ clipboard # cPrompt

\* C14: on DataCamp, while no anchor exists on a video page, the runs of
\* attemptButtonInsertion that find no anchor number at most 10, and once
\* the 10th has run no retry timer is pending.
C14_DataCampRetryBounded ==
    (platform = "datacamp" /\ videoPage /\ anchor = "none")
    => /\ misses <= RetryLimit
       /\ misses = RetryLimit => insTimers = 0

(***************************************************************************)
(* The options page's prompt library: currentSettings in the page, the     *)
(* prompts and serviceSettings keys in chrome.storage.local.               *)
(***************************************************************************)
\* Values generateId() returns (Date.now() and Math.random() in base 36).
GeneratedIds == {"p1", "p2"}

\* What the user can have typed into the name and content inputs.
TypedTexts == {<<" ">>, <<" ", "d">>}

\* The ids of a prompts array.
idsOf(ps) == {ps[i].id : i \in 1..Len(ps)}

\* generateId(): an id no prompt has had.
generateId == CHOOSE id \in GeneratedIds : id \notin issued

\* li click -> selectPrompt(prompt.id)
SelectPrompt ==
    /\ \E id \in idsOf(libPrompts) : selectedPromptId' = id
    /\ libOp' = "selectPrompt"
    /\ UNCHANGED <<libGlobal, stGlobal>>
    /\ UNCHANGED <<libPrompts, libService, stPrompts, stService, issued>>
    /\ UNCHANGED otherThanOptions

\* createNewPrompt(): push {id: newId, content: DEFAULT_PROMPT_CONTENT}, select it.
createNewPrompt ==
    /\ issued # GeneratedIds
    /\ libPrompts' = Append(libPrompts, [id |-> generateId, content |-> <<"d">>])
    /\ selectedPromptId' = generateId
    /\ issued' = issued \cup {generateId}
    /\ libOp' = "createNewPrompt"
    /\ UNCHANGED <<libGlobal, stGlobal>>
    /\ UNCHANGED <<libService, stPrompts, stService>>
    /\ UNCHANGED otherThanOptions

\* duplicatePrompt(): push a copy of the selected prompt under a new id, select it.
duplicatePrompt ==
    /\ selectedPromptId \in idsOf(libPrompts)
    /\ issued # GeneratedIds
    /\ LET original == CHOOSE i \in 1..Len(libPrompts) : libPrompts[i].id = selectedPromptId
       IN  libPrompts' = Append(libPrompts, [id |-> generateId,
                                             content |-> libPrompts[original].content])
    /\ selectedPromptId' = generateId
    /\ issued' = issued \cup {generateId}
    /\ libOp' = "duplicatePrompt"
    /\ UNCHANGED <<libGlobal, stGlobal>>
    /\ UNCHANGED <<libService, stPrompts, stService>>
    /\ UNCHANGED otherThanOptions

\* saveCurrentPrompt(): name and content are trimmed and must be non-empty;
\* the prompt is updated in place and the prompts key is written (the write
\* can reject).
saveCurrentPrompt ==
    /\ selectedPromptId \in idsOf(libPrompts)
    /\ libOp' = "saveCurrentPrompt"
    /\ UNCHANGED <<libGlobal, stGlobal>>
    /\ \E name \in TypedTexts, content \in TypedTexts, ok \in BOOLEAN :
         IF trim(name) = <<>> \/ trim(content) = <<>>
         THEN UNCHANGED <<libPrompts, stPrompts>>
         ELSE /\ libPrompts' = [i \in 1..Len(libPrompts) |->
                                  IF libPrompts[i].id = selectedPromptId
                                  THEN [libPrompts[i] EXCEPT !.content = trim(content)]
                                  ELSE libPrompts[i]]
              /\ stPrompts' = IF ok THEN libPrompts' ELSE stPrompts
    /\ UNCHANGED <<libService, selectedPromptId, stService, issued>>
    /\ UNCHANGED otherThanOptions

\* A reset that sets every service's mapping to 'default'.
resetMappingsAll(svc, id) == [s \in Platforms |-> "default"]

\* services.forEach: if (serviceSettings[service]?.promptId === selectedPromptId)
\*                     serviceSettings[service].promptId = 'default'
resetMappings(svc, id) ==
    [s \in Platforms |-> IF svc[s] = id THEN "default" ELSE svc[s]]

\* deletePrompt(): nothing selected -> return; one prompt left -> error
\* status, return; confirm() declined -> return; otherwise filter the prompt
\* out, reset the mappings that used it and write prompts and serviceSettings
\* (on success the selection is cleared; the write can reject).
deletePrompt ==
    /\ selectedPromptId # "null"
    /\ libOp' = "deletePrompt"
    /\ UNCHANGED <<libGlobal, stGlobal>>
    /\ IF Len(libPrompts) <= 1 \/ selectedPromptId \notin idsOf(libPrompts)
       THEN UNCHANGED <<libPrompts, libService, selectedPromptId, stPrompts, stService>>
       ELSE \E confirmed \in BOOLEAN, ok \in BOOLEAN :
              IF ~confirmed
              THEN UNCHANGED <<libPrompts, libService, selectedPromptId, stPrompts,
                               stService>>
              ELSE /\ libPrompts' = SelectSeq(libPrompts,
                                              LAMBDA p : p.id # selectedPromptId)
                   /\ libService' = resetMappings(libService, selectedPromptId)
                   /\ stPrompts' = IF ok THEN libPrompts' ELSE stPrompts
                   /\ stService' = IF ok THEN libService' ELSE stService
                   /\ selectedPromptId' = IF ok THEN "null" ELSE selectedPromptId
    /\ UNCHANGED issued
    /\ UNCHANGED otherThanOptions

\* populatePromptSelects(): a select shows the prompt with the mapped id, or
\* the first option when the mapped id is not among the options.
shownOption(id) == IF id \in idsOf(libPrompts) THEN id ELSE libPrompts[1].id

selectValue(s) == shownOption(libService[s])

\* The selects of the configuration form that take a prompt id.
PromptSelects == Platforms \cup {"globalPrompt"}

\* handleConfigSave(): the user has changed one prompt select to one of the
\* library's prompts; the whole settings object, with
\* currentSettings.prompts, is written and becomes currentSettings (the
\* write can reject).
handleConfigSave ==
    /\ libOp' = "handleConfigSave"
    /\ \E changed \in PromptSelects, id \in idsOf(libPrompts), ok \in BOOLEAN :
         LET m == [s \in Platforms |-> IF s = changed THEN id ELSE selectValue(s)]
             g == IF changed = "globalPrompt" THEN id ELSE shownOption(libGlobal)
         IN
         IF ok
         THEN /\ stPrompts' = libPrompts
              /\ stService' = m
              /\ libService' = m
              /\ stGlobal' = g
              /\ libGlobal' = g
         ELSE UNCHANGED <<stPrompts, stService, libService, stGlobal, libGlobal>>
    /\ UNCHANGED <<libPrompts, selectedPromptId, issued>>
    /\ UNCHANGED otherThanOptions

\* The options page is opened again: loadSettings() merges storage over the
\* defaults; an absent or empty prompts array becomes the default one.
loadSettings ==
    /\ libPrompts' = IF stPrompts = <<>> THEN DefaultPrompts ELSE stPrompts
    /\ libService' = stService
    /\ libGlobal' = stGlobal
    /\ selectedPromptId' = "null"
    /\ libOp' = "loadSettings"
    /\ UNCHANGED <<stPrompts, stService, issued, stGlobal>>
    /\ UNCHANGED otherThanOptions

InitOptions ==
    /\ OptionsIdle
    /\ MigrateIdle
    /\ settings = DEFAULT_SETTINGS
    /\ pending = NoPending
    /\ platform = "youtube"
    /\ PageIdle
    /\ AgentsOff
    /\ PureIdle
    /\ InsertIdle
    /\ FnIdle
    /\ HandIdle
    /\ ScrollIdle
    /\ LateIdle

NextOptions ==
    \/ SelectPrompt
    \/ createNewPrompt
    \/ duplicatePrompt
    \/ saveCurrentPrompt
    \/ deletePrompt
    \/ handleConfigSave
    \/ loadSettings

SpecOptions == InitOptions /\ [][NextOptions]_vars

\* C15: the stored prompts list is never empty and always contains the
\* template with id 'default'.
C15_LibraryHasDefault ==
    /\ stPrompts # <<>>
    /\ "default" \in idsOf(stPrompts)

\* C16: a run of deletePrompt with one template in the library changes
\* neither the library nor storage; a run that deletes removes exactly the
\* selected template, sets the mapping of every service that referenced it
\* to 'default' and leaves the other mappings as they were.
C16_DeleteRejectsSoleAndResetsMappings ==
    [][libOp' = "deletePrompt" =>
         IF Len(libPrompts) = 1
         THEN UNCHANGED <<libPrompts, libService, stPrompts, stService>>
         ELSE libPrompts' # libPrompts =>
                /\ libPrompts' = SelectSeq(libPrompts, LAMBDA p : p.id # selectedPromptId)
                /\ Len(libPrompts') = Len(libPrompts) - 1
                /\ \A s \in Platforms :
                     libService'[s] = IF libService[s] = selectedPromptId
                                      THEN "default" ELSE libService[s]
                /\ stService' \in {stService, libService'}]_vars

\* A template that two services referenced, with a third service on another
\* template, was deleted and stored: the two are on 'default', the third is
\* where it was.
C16_Witness ==
    /\ libOp = "deletePrompt"
    /\ idsOf(stPrompts) = {"default", "p2"}
    /\ stPrompts = libPrompts
    /\ "p1" \in issued
    /\ stService = [youtube |-> "default", udemy |-> "default",
                    coursera |-> "p2", datacamp |-> "default"]
    /\ libService = stService

(***************************************************************************)
(* utils/storage.js: getSettings and the migration of a legacy record      *)
(* (one without the prompts key), called from several page contexts.       *)
(***************************************************************************)
\* Highest value of Date.now() reached.
MaxClock == 2

\* 'legacy-prompt-' + generateId().substring(0, 8): the first eight
\* characters of generateId() are Date.now() in base 36.
LegacyIds == <<"legacy-prompt-1", "legacy-prompt-2", "legacy-prompt-3", "legacy-prompt-4">>
legacyId(now) == LegacyIds[now]

\* A trimmed comparison replaced by a plain one.
differsFromDefaultNoTrim(content) == content # DEFAULT_PROMPT_CONTENT

\* legacyContent.trim() !== DEFAULT_PROMPT_CONTENT.trim()
differsFromDefault(content) == trim(content) # trim(DEFAULT_PROMPT_CONTENT)

\* A copy that skips falsy values.
copyScalarsTruthy(oldData) ==
    [k \in ScalarKeys |-> IF oldData.scalars[k] \notin {"undefined", "false", ""}
                          THEN oldData.scalars[k] ELSE DefaultScalars[k]]

\* keysToCopy.forEach(key => { if (oldData[key] !== undefined) newSettings[key] = oldData[key] })
copyScalars(oldData) ==
    [k \in ScalarKeys |-> IF oldData.scalars[k] # "undefined"
                          THEN oldData.scalars[k] ELSE DefaultScalars[k]]

\* The serviceSettings entry migration builds from the old value.
migrateService(oldVal, targetPromptId, defaultAutoSubmit) ==
    [kind |-> "object",
     model |-> IF oldVal.kind = "string" THEN oldVal.model
               ELSE IF oldVal.kind = "object" /\ oldVal.model \notin {"undefined", ""}
               THEN oldVal.model
               ELSE "chatgpt",
     promptId |-> targetPromptId,
     autoSubmit |-> IF oldVal.kind = "object" /\ oldVal.autoSubmit # "undefined"
                    THEN oldVal.autoSubmit
                    ELSE defaultAutoSubmit]

\* migrateSettings(oldData) up to its storage write, run at time `now`:
\* the newSettings object.
migrateSettings(oldData, now) ==
    LET legacyContent == IF oldData.customPrompt.def /\ oldData.customPrompt.text # <<>>
                         THEN oldData.customPrompt.text
                         ELSE DEFAULT_PROMPT_CONTENT
        differs == differsFromDefault(legacyContent)
        targetPromptId == IF differs THEN legacyId(now) ELSE "default"
        defaultAutoSubmit == IF oldData.scalars["autoFillEnabled"] # "false"
                             THEN "true" ELSE "false"
    IN  [scalars |-> copyScalars(oldData),
         globalPromptId |-> "default",
         customPrompt |-> [def |-> FALSE, text |-> <<>>],
         hasPrompts |-> TRUE,
         prompts |-> IF differs
                     THEN DefaultPrompts \o <<[id |-> legacyId(now), content |-> legacyContent]>>
                     ELSE DefaultPrompts,
         hasServiceSettings |-> TRUE,
         services |-> [s \in Platforms |->
                         migrateService(IF oldData.hasServiceSettings
                                        THEN oldData.services[s] ELSE ServiceAbsent,
                                        targetPromptId, defaultAutoSubmit)]]

\* chrome.storage.local.set(newSettings): the keys of newSettings replace
\* the stored ones, other keys (customPrompt) stay.
storageSet(old, newSettings) == [newSettings EXCEPT !.customPrompt = old.customPrompt]

\* { ...DEFAULT_SETTINGS, ...raw }
mergeDefaults(raw) ==
    [scalars |-> copyScalars(raw),
     globalPromptId |-> IF raw.globalPromptId # "undefined" THEN raw.globalPromptId
                        ELSE "default",
     customPrompt |-> raw.customPrompt,
     hasPrompts |-> TRUE,
     prompts |-> raw.prompts,
     hasServiceSettings |-> TRUE,
     services |-> IF raw.hasServiceSettings THEN raw.services
                  ELSE [s \in Platforms |-> ServiceDefault]]

\* A getSettings that migrates whatever it reads.
needsMigrationAlways(raw) == TRUE

\* if (!raw.prompts)
needsMigration(raw) == ~raw.hasPrompts

\* A context calls getSettings().
GetSettingsCall(c) ==
    /\ gs[c].pc = "idle"
    /\ gs' = [gs EXCEPT ![c] = [NoCall EXCEPT !.pc = "reading"]]
    /\ UNCHANGED <<store, legacy, clock>>
    /\ UNCHANGED otherThanMigrate

\* const raw = await chrome.storage.local.get(null) settles.  Rejected: the
\* catch returns DEFAULT_SETTINGS.  With prompts: the merged record is
\* returned.  Without: migrateSettings runs up to its await of the write.
GetSettingsRead(c) ==
    /\ gs[c].pc = "reading"
    /\ \E ok \in BOOLEAN :
         gs' = [gs EXCEPT ![c] =
                  IF ~ok
                  THEN [pc |-> "done", raw |-> DefaultRecord, out |-> DefaultRecord,
                        how |-> "defaults"]
                  ELSE IF needsMigration(store)
                  THEN [pc |-> "writing", raw |-> store,
                        out |-> migrateSettings(store, clock), how |-> "none"]
                  ELSE [pc |-> "done", raw |-> store, out |-> mergeDefaults(store),
                        how |-> "merged"]]
    /\ UNCHANGED <<store, legacy, clock>>
    /\ UNCHANGED otherThanMigrate

\* await chrome.storage.local.set(newSettings) settles: written and
\* newSettings returned, or rejected and DEFAULT_SETTINGS returned by the
\* catch of getSettings.
MigrateWrite(c) ==
    /\ gs[c].pc = "writing"
    /\ \E ok \in BOOLEAN :
         IF ok
         THEN /\ store' = storageSet(store, gs[c].out)
              /\ gs' = [gs EXCEPT ![c].pc = "done", ![c].how = "migrated"]
         ELSE /\ gs' = [gs EXCEPT ![c].pc = "done", ![c].out = DefaultRecord,
                                  ![c].how = "defaults"]
              /\ UNCHANGED store
    /\ UNCHANGED <<legacy, clock>>
    /\ UNCHANGED otherThanMigrate

\* The caller has used the result; the context can call again.
GetSettingsReturn(c) ==
    /\ gs[c].pc = "done"
    /\ gs' = [gs EXCEPT ![c] = NoCall]
    /\ UNCHANGED <<store, legacy, clock>>
    /\ UNCHANGED otherThanMigrate

\* Time passes.
Tick ==
    /\ clock < MaxClock
    /\ clock' = clock + 1
    /\ UNCHANGED <<store, legacy, gs>>
    /\ UNCHANGED otherThanMigrate

\* Legacy records: no prompts key; scalars as the old options page or an
\* older version left them; customPrompt absent or a non-blank text; the
\* service entries absent, a model name, or an object.
LegacyScalars ==
    {[aiMode |-> a, selectedModel |-> m, geminiUrl |-> g, theme |-> t, copyFormat |-> f,
      showButton |-> b, autoFillEnabled |-> e] :
        a \in {"undefined", "global", "custom"},
        m \in {"undefined", "chatgpt", "gemini"},
        g \in {"undefined", "", "gemini.google.com/u/1"},
        t \in {"undefined", "auto", "dark"},
        f \in {"undefined", "markdown", "plain"},
        b \in {"undefined", "false", "true"},
        e \in {"undefined", "false", "true"}}

LegacyCustomPrompts ==
    {[def |-> FALSE, text |-> <<>>]} \cup
    {[def |-> TRUE, text |-> t] : t \in {<<"d">>, <<" ", "d", " ">>, <<"c">>, <<"c", " ">>}}

LegacyServiceValues ==
    {ServiceAbsent,
     [kind |-> "string", model |-> "gemini", promptId |-> "undefined",
      autoSubmit |-> "undefined"],
     [kind |-> "object", model |-> "claude", promptId |-> "undefined",
      autoSubmit |-> "false"],
     [kind |-> "object", model |-> "undefined", promptId |-> "undefined",
      autoSubmit |-> "true"],
     [kind |-> "object", model |-> "grok", promptId |-> "undefined",
      autoSubmit |-> "undefined"]}

LegacyRecord(sc, cp, hasSvc, svc) ==
    [scalars |-> sc, globalPromptId |-> "undefined", customPrompt |-> cp,
     hasPrompts |-> FALSE, prompts |-> <<>>,
     hasServiceSettings |-> hasSvc, services |-> svc]

AllAbsent == [s \in Platforms |-> ServiceAbsent]
OldFormat == [s \in Platforms |-> [kind |-> "string", model |-> "gemini",
                                   promptId |-> "undefined", autoSubmit |-> "undefined"]]

\* The legacy records migration is run on: every combination of scalars,
\* every custom prompt, every combination of service entries.
LegacyRecords ==
    {LegacyRecord(sc, cp, FALSE, AllAbsent) :
        sc \in LegacyScalars, cp \in {[def |-> FALSE, text |-> <<>>],
                                      [def |-> TRUE, text |-> <<"c">>]}}
    \cup {LegacyRecord([k \in ScalarKeys |-> "undefined"], cp, TRUE, OldFormat) :
            cp \in LegacyCustomPrompts}
    \cup {LegacyRecord([[k \in ScalarKeys |-> "undefined"] EXCEPT !["autoFillEnabled"] = af],
                       [def |-> TRUE, text |-> <<"c">>], TRUE, svc) :
            af \in {"undefined", "false", "true"}, svc \in [Platforms -> LegacyServiceValues]}

\* One context, any legacy record.
InitMigrate ==
    /\ store \in LegacyRecords
    /\ legacy = store
    /\ clock \in 1..MaxClock
    /\ gs = [c \in Contexts |-> NoCall]
    /\ OptionsIdle
    /\ settings = DEFAULT_SETTINGS
    /\ pending = NoPending
    /\ platform = "youtube"
    /\ PageIdle
    /\ AgentsOff
    /\ PureIdle
    /\ InsertIdle
    /\ FnIdle
    /\ HandIdle
    /\ ScrollIdle
    /\ LateIdle

NextMigrate ==
    \/ GetSettingsCall("c1")
    \/ GetSettingsRead("c1")
    \/ MigrateWrite("c1")
    \/ GetSettingsReturn("c1")

SpecMigrate == InitMigrate /\ [][NextMigrate]_vars

\* Two contexts whose calls overlap, on a few legacy records.
OverlapRecords ==
    {LegacyRecord([[k \in ScalarKeys |-> "undefined"] EXCEPT !["autoFillEnabled"] = af],
                  cp, TRUE, OldFormat) :
        af \in {"undefined", "false"}, cp \in LegacyCustomPrompts}

InitOverlap ==
    /\ store \in OverlapRecords
    /\ legacy = store
    /\ clock = 1
    /\ gs = [c \in Contexts |-> NoCall]
    /\ OptionsIdle
    /\ settings = DEFAULT_SETTINGS
    /\ pending = NoPending
    /\ platform = "youtube"
    /\ PageIdle
    /\ AgentsOff
    /\ PureIdle
    /\ InsertIdle
    /\ FnIdle
    /\ HandIdle
    /\ ScrollIdle
    /\ LateIdle

NextOverlap ==
    \/ \E c \in Contexts : GetSettingsCall(c)
    \/ \E c \in Contexts : GetSettingsRead(c)
    \/ \E c \in Contexts : MigrateWrite(c)
    \/ \E c \in Contexts : GetSettingsReturn(c)
    \/ Tick

SpecOverlap == InitOverlap /\ [][NextOverlap]_vars

\* The legacy serviceSettings entry of a service ({} when the key is absent).
legacyService(s) == IF legacy.hasServiceSettings THEN legacy.services[s] ELSE ServiceAbsent

\* C17: a completed migration of a legacy record returns and stores a
\* prompts list that contains 'default'; when the legacy custom prompt
\* differs from the built-in text after trimming, the list has exactly one
\* more entry, holding the legacy text, and all four services' promptId are
\* its id; otherwise the list is the default entry alone and all four
\* promptId are 'default'.
C17_MigrationPrompts ==
    gs["c1"].how = "migrated" =>
        LET r == gs["c1"].out
            cp == legacy.customPrompt
        IN  /\ "default" \in idsOf(r.prompts)
            /\ IF cp.def /\ trim(cp.text) # trim(DEFAULT_PROMPT_CONTENT)
               THEN /\ Len(r.prompts) = 2
                    /\ r.prompts[2].id # "default"
                    /\ r.prompts[2].content = cp.text
                    /\ \A s \in Platforms : r.services[s].promptId = r.prompts[2].id
               ELSE /\ r.prompts = DefaultPrompts
                    /\ \A s \in Platforms : r.services[s].promptId = "default"
            /\ store.hasPrompts
            /\ store.prompts = r.prompts
            /\ \A s \in Platforms : store.services[s].promptId = r.services[s].promptId

\* A legacy custom prompt with trailing whitespace was migrated into a
\* second entry.
C17_Witness ==
    /\ gs["c1"].how = "migrated"
    /\ legacy.customPrompt = [def |-> TRUE, text |-> <<"c", " ">>]
    /\ Len(store.prompts) = 2
    /\ store.prompts[2].content = <<"c", " ">>

\* C18: a completed migration keeps every scalar the legacy record defines
\* (false and '' included) in the returned and in the stored record, and
\* each service keeps its legacy model (old string format or object) and its
\* legacy autoSubmit when it had one.
C18_MigrationPreservesScalars ==
    gs["c1"].how = "migrated" =>
        LET r == gs["c1"].out IN
        /\ \A k \in ScalarKeys :
             legacy.scalars[k] # "undefined"
             => r.scalars[k] = legacy.scalars[k] /\ store.scalars[k] = legacy.scalars[k]
        /\ \A s \in Platforms :
             /\ (legacyService(s).kind \in {"string", "object"}
                 /\ legacyService(s).model # "undefined")
                => /\ r.services[s].model = legacyService(s).model
                   /\ store.services[s].model = legacyService(s).model
             /\ (legacyService(s).kind = "object" /\ legacyService(s).autoSubmit # "undefined")
                => /\ r.services[s].autoSubmit = legacyService(s).autoSubmit
                   /\ store.services[s].autoSubmit = legacyService(s).autoSubmit

\* A legacy record with showButton false, autoFillEnabled false and an empty
\* geminiUrl was migrated.
C18_Witness ==
    /\ gs["c1"].how = "migrated"
    /\ legacy.scalars["showButton"] = "false"
    /\ legacy.scalars["autoFillEnabled"] = "false"
    /\ legacy.scalars["geminiUrl"] = ""
    /\ store.scalars["showButton"] = "false"
    /\ store.scalars["geminiUrl"] = ""

\* C19: once storage holds a migrated record, a getSettings call that reads
\* it does not migrate: it returns the stored record merged over the
\* defaults and leaves storage alone.  And whatever calls overlap, a stored
\* record with prompts is the migration of the legacy record by one call
\* (at one time), so every service's promptId is the id of a stored prompt.
C19_MigratedOnceConsistent ==
    /\ [](store.hasPrompts =>
            /\ \E t \in 1..MaxClock : store = storageSet(legacy, migrateSettings(legacy, t))
            /\ \A s \in Platforms : store.services[s].promptId \in idsOf(store.prompts))
    /\ [][\A c \in Contexts :
            (store.hasPrompts /\ gs[c].pc = "reading" /\ gs'[c].pc # "reading")
            => /\ gs'[c].pc = "done"
               /\ gs'[c].how \in {"merged", "defaults"}
               /\ gs'[c].how = "merged" => gs'[c].out = mergeDefaults(store)
               /\ store' = store]_vars

\* Two overlapping calls both migrated, under different legacy ids; storage
\* holds the second one's record.
C19_Witness ==
    /\ gs["c1"].how = "migrated"
    /\ gs["c2"].how = "migrated"
    /\ gs["c1"].out.prompts # gs["c2"].out.prompts
    /\ store.prompts = gs["c2"].out.prompts
    /\ Len(store.prompts) = 2

\* C20: shouldOpenTab's answer is, in custom mode, the service entry's
\* autoSubmit flag, and true when serviceSettings, the entry or the flag is
\* missing; in every other mode ('global', absent, anything else) it is the
\* autoFillEnabled flag, and true when that is missing.
C20_ShouldOpenTabTable ==
    qOpen # "none" =>
        qOpen = IF qSettings.aiMode = "custom"
                THEN IF /\ qSettings.hasServiceSettings
                        /\ qSettings.serviceSettings[qService].kind = "object"
                        /\ qSettings.serviceSettings[qService].autoSubmit # "undefined"
                     THEN qSettings.serviceSettings[qService].autoSubmit
                     ELSE "true"
                ELSE IF qSettings.autoFillEnabled = "undefined"
                     THEN "true"
                     ELSE qSettings.autoFillEnabled

\* shouldOpenTab has answered "no" from the global flag for a record whose
\* aiMode is neither 'custom' nor 'global', although the service's own flag
\* is on.
C20_Witness ==
    /\ qOpen = "false"
    /\ qSettings.aiMode \notin {"custom", "global"}
    /\ qSettings.autoFillEnabled = "false"
    /\ qSettings.hasServiceSettings
    /\ qSettings.serviceSettings[qService].kind = "object"
    /\ qSettings.serviceSettings[qService].autoSubmit = "true"

(***************************************************************************)
(* AIBridge.getTargetUrl / getActiveModel                                  *)
(***************************************************************************)
\* Model keys: the four known ones and one DEFAULT_AI_URLS does not have.
KnownModels == {"chatgpt", "gemini", "grok", "claude"}
ModelKeys == KnownModels \cup {"perplexity"}

\* const DEFAULT_AI_URLS
DEFAULT_AI_URLS ==
    [chatgpt |-> "https://chatgpt.com/", gemini |-> "https://gemini.google.com/app",
     grok |-> "https://grok.com/", claude |-> "https://claude.ai/new"]

\* What a user can have stored under `${model}Url`.
CustomUrls ==
    [chatgpt |-> "https://chatgpt.com/g/mine", gemini |-> "https://gemini.google.com/u/1/app",
     grok |-> "https://x.com/i/grok", claude |-> "https://claude.ai/project/1",
     perplexity |-> "https://www.perplexity.ai/"]

\* A model value that is there and truthy.
isSet(v) == v \notin {"undefined", ""}

\* A getActiveModel that ignores the mode.
getActiveModelGlobalOnly(stg, serviceName) ==
    IF isSet(stg.selectedModel) THEN stg.selectedModel ELSE "chatgpt"

\* AIBridge.getActiveModel(settings, serviceName)
getActiveModel(stg, serviceName) ==
    IF stg.aiMode = "custom" /\ stg.hasServiceSettings
    THEN LET serviceSetting == stg.serviceSettings[serviceName]
         IN  IF serviceSetting.kind = "string" THEN serviceSetting.model
             ELSE IF serviceSetting.kind = "object" /\ isSet(serviceSetting.model)
             THEN serviceSetting.model
             ELSE "chatgpt"
    ELSE IF isSet(stg.selectedModel) THEN stg.selectedModel ELSE "chatgpt"

\* AIBridge.getTargetUrl(settings, serviceName)
getTargetUrl(stg, serviceName) ==
    LET model == getActiveModel(stg, serviceName)
        customUrl == stg.urls[model]
    IN  IF isSet(customUrl) THEN customUrl
        ELSE IF model \in DOMAIN DEFAULT_AI_URLS THEN DEFAULT_AI_URLS[model]
        ELSE DEFAULT_AI_URLS["chatgpt"]

\* Per-service entries for the URL resolution: absent, a model name (old
\* format), or an object whose model is a key, '' or missing.
UrlEntries ==
    {[kind |-> "undefined", model |-> "undefined"]}
    \cup {[kind |-> "string", model |-> m] : m \in ModelKeys}
    \cup {[kind |-> "object", model |-> m] : m \in ModelKeys \cup {"undefined", ""}}

\* The entry the other services have.
OtherUrlEntry == [kind |-> "object", model |-> "grok"]

\* `${model}Url` keys: each absent or set, or all of them ''.
UrlOverrides ==
    {[m \in ModelKeys |-> IF m \in S THEN CustomUrls[m] ELSE "undefined"] : S \in SUBSET ModelKeys}
    \cup {[m \in ModelKeys |-> ""]}

UrlInputs ==
    {[serviceName |-> s,
      settings |-> [aiMode |-> a, selectedModel |-> g, hasServiceSettings |-> h, urls |-> u,
                    serviceSettings |-> [t \in Platforms |->
                                           IF t = s THEN e ELSE OtherUrlEntry]]] :
        s \in Platforms, a \in AiModes, g \in ModelKeys \cup {"undefined", ""},
        h \in BOOLEAN, u \in UrlOverrides, e \in UrlEntries}

InitUrl ==
    /\ fnIn \in UrlInputs
    /\ fnOut = [done |-> FALSE, val |-> "none"]
    /\ OptionsIdle
    /\ MigrateIdle
    /\ settings = DEFAULT_SETTINGS
    /\ pending = NoPending
    /\ platform = "youtube"
    /\ PageIdle
    /\ AgentsOff
    /\ PureIdle
    /\ InsertIdle
    /\ HandIdle
    /\ ScrollIdle
    /\ LateIdle

\* AIBridge.getTargetUrl(settings, serviceName) is called.
CallGetTargetUrl ==
    /\ ~fnOut.done
    /\ fnOut' = [done |-> TRUE, val |-> getTargetUrl(fnIn.settings, fnIn.serviceName)]
    /\ UNCHANGED fnIn
    /\ UNCHANGED otherThanFn

SpecUrl == InitUrl /\ [][CallGetTargetUrl]_vars

\* The URL a model resolves to under given overrides.
urlOfModel(model, urls) ==
    IF urls[model] \notin {"undefined", ""} THEN urls[model]
    ELSE IF model = "gemini" THEN "https://gemini.google.com/app"
    ELSE IF model = "grok" THEN "https://grok.com/"
    ELSE IF model = "claude" THEN "https://claude.ai/new"
    ELSE "https://chatgpt.com/"

\* C21: the resolved URL is never empty; in custom mode with a per-service
\* model configured it is that model's override when one is set, else that
\* model's default URL; in every other mode the same for the global
\* selectedModel; an unknown model without override resolves to the chatgpt
\* default, and so does a missing model.
C21_TargetUrl ==
    fnOut.done =>
        LET st == fnIn.settings
            e == st.serviceSettings[fnIn.serviceName]
        IN  /\ fnOut.val \notin {"", "undefined", "none"}
            /\ (st.aiMode = "custom" /\ st.hasServiceSettings)
               => fnOut.val = urlOfModel(IF e.model \notin {"undefined", ""}
                                         THEN e.model ELSE "chatgpt", st.urls)
            /\ st.aiMode # "custom"
               => fnOut.val = urlOfModel(IF st.selectedModel \notin {"undefined", ""}
                                         THEN st.selectedModel ELSE "chatgpt", st.urls)

\* Custom mode, the service on gemini with an override while the global
\* model is claude: the gemini override is the result.
C21_Witness ==
    /\ fnOut.done
    /\ fnIn.settings.aiMode = "custom"
    /\ fnIn.settings.hasServiceSettings
    /\ fnIn.settings.serviceSettings[fnIn.serviceName] = [kind |-> "object", model |-> "gemini"]
    /\ fnIn.settings.selectedModel = "claude"
    /\ fnOut.val = "https://gemini.google.com/u/1/app"

(***************************************************************************)
(* The pending record under hand-offs from two content pages.              *)
(***************************************************************************)
\* Prompts handed off.
MaxWrites == 3

\* A write that stores the prompt and leaves the source key as it was.
setPendingPromptOnly(old, prompt, serviceName) == [id |-> prompt, source |-> old.source]

\* chrome.storage.local.set({pendingPrompt: prompt, pendingSource: serviceName}):
\* both keys in one call.
setPending(old, prompt, serviceName) == [id |-> prompt, source |-> serviceName]

\* AIBridge.execute on a page, with the tab to be opened: up to the await of
\* the write.
HandoffStart(p) ==
    /\ hpc[p] = "idle"
    /\ hNext <= MaxWrites
    /\ hpc' = [hpc EXCEPT ![p] = "writing"]
    /\ hPrompt' = [hPrompt EXCEPT ![p] = hNext]
    /\ hNext' = hNext + 1
    /\ UNCHANGED <<hPlatform, writes, pending>>
    /\ UNCHANGED <<settings, pageVars, agentVars, pureVars, insertVars, optionsVars,
                   migrateVars, fnVars, scrollVars, lateVars>>

\* The write takes effect; the handler goes on (window.open, button restored).
HandoffWrite(p) ==
    /\ hpc[p] = "writing"
    /\ pending' = setPending(pending, hPrompt[p], hPlatform[p])
    /\ writes' = Append(writes, [prompt |-> hPrompt[p], page |-> p])
    /\ hpc' = [hpc EXCEPT ![p] = "idle"]
    /\ UNCHANGED <<hPlatform, hPrompt, hNext>>
    /\ UNCHANGED <<settings, pageVars, agentVars, pureVars, insertVars, optionsVars,
                   migrateVars, fnVars, scrollVars, lateVars>>

\* An auto-fill agent consumes the record:
\* chrome.storage.local.remove(['pendingPrompt', 'pendingSource']).
HandoffConsumed ==
    /\ pending # NoPending
    /\ pending' = NoPending
    /\ writes' = <<>>
    /\ UNCHANGED <<hPlatform, hpc, hPrompt, hNext>>
    /\ UNCHANGED <<settings, pageVars, agentVars, pureVars, insertVars, optionsVars,
                   migrateVars, fnVars, scrollVars, lateVars>>

InitHandoff ==
    /\ hPlatform \in [Pages -> Platforms]
    /\ hpc = [p \in Pages |-> "idle"]
    /\ hPrompt = [p \in Pages |-> 0]
    /\ hNext = 1
    /\ writes = <<>>
    /\ BaseIdle
    /\ OptionsIdle
    /\ MigrateIdle
    /\ FnIdle
    /\ ScrollIdle
    /\ LateIdle

NextHandoff ==
    \/ \E p \in Pages : HandoffStart(p)
    \/ \E p \in Pages : HandoffWrite(p)
    \/ HandoffConsumed

SpecHandoff == InitHandoff /\ [][NextHandoff]_vars

\* C22: storage holds one pending record or none; after one or more
\* hand-off writes with no consumption since, it holds exactly the prompt
\* of the latest write together with the platform of the page that made
\* that write.
C22_LastWriteWins ==
    /\ writes = <<>> => pending = NoPending
    /\ writes # <<>> =>
         LET last == writes[Len(writes)]
         IN  /\ pending.id = last.prompt
             /\ pending.source = hPlatform[last.page]

\* Two pages on different platforms wrote one after the other, the write of
\* the earlier activation landing last; storage holds that write whole.
C22_Witness ==
    /\ Len(writes) = 2
    /\ writes[1].page # writes[2].page
    /\ hPlatform["pageA"] # hPlatform["pageB"]
    /\ writes[2].prompt < writes[1].prompt
    /\ pending = [id |-> writes[2].prompt, source |-> hPlatform[writes[2].page]]

(***************************************************************************)
(* formatSecondsToTimestamp / timestampToSeconds.  A string is a sequence   *)
(* of one-character strings.                                               *)
(***************************************************************************)
\* Largest number of seconds converted (99:59:59).
MaxSeconds == 359999

DigitChars == <<"0", "1", "2", "3", "4", "5", "6", "7", "8", "9">>

\* Number.prototype.toString / String(n) for a non-negative integer.
RECURSIVE toString(_)
toString(n) ==
    IF n < 10 THEN <<DigitChars[n + 1]>>
    ELSE toString(n \div 10) \o <<DigitChars[(n % 10) + 1]>>

\* str.padStart(2, '0')
padStart2(str) == IF Len(str) < 2 THEN <<"0">> \o str ELSE str

\* A format that never writes the hours part.
formatSecondsNoHours(seconds) ==
    toString((seconds % 3600) \div 60) \o <<":">> \o padStart2(toString(seconds % 60))

\* formatSecondsToTimestamp(seconds)
formatSecondsToTimestamp(seconds) ==
    LET hrs == seconds \div 3600
        mins == (seconds % 3600) \div 60
        secs == seconds % 60
    IN  IF hrs > 0
        THEN toString(hrs) \o <<":">> \o padStart2(toString(mins)) \o <<":">>
             \o padStart2(toString(secs))
        ELSE toString(mins) \o <<":">> \o padStart2(toString(secs))

\* timestamp.split(':')
RECURSIVE split(_)
split(str) ==
    IF \A i \in 1..Len(str) : str[i] # ":"
    THEN <<str>>
    ELSE LET i == CHOOSE k \in 1..Len(str) :
                     str[k] = ":" /\ \A j \in 1..(k - 1) : str[j] # ":"
         IN  <<SubSeq(str, 1, i - 1)>> \o split(SubSeq(str, i + 1, Len(str)))

\* parseInt(p, 10) || 0: the leading decimal digits, 0 when there are none.
RECURSIVE parseIntFrom(_, _)
parseIntFrom(str, acc) ==
    IF str = <<>> \/ \A d \in 1..10 : DigitChars[d] # Head(str)
    THEN acc
    ELSE parseIntFrom(Tail(str),
                      10 * acc + ((CHOOSE d \in 1..10 : DigitChars[d] = Head(str)) - 1))
parseInt(str) == parseIntFrom(str, 0)

\* timestampToSeconds(timestamp): the seconds, as a string.
timestampToSeconds(timestamp) ==
    IF timestamp = <<>> THEN <<"0">>
    ELSE LET parts == split(timestamp) IN
         IF Len(parts) = 3
         THEN toString(parseInt(parts[1]) * 3600 + parseInt(parts[2]) * 60 + parseInt(parts[3]))
         ELSE IF Len(parts) = 2
         THEN toString(parseInt(parts[1]) * 60 + parseInt(parts[2]))
         ELSE <<"0">>

\* timestampToSeconds(formatSecondsToTimestamp(n)) is evaluated.
CallRoundTrip ==
    /\ ~fnOut.done
    /\ \E n \in 0..MaxSeconds :
         /\ fnIn' = n
         /\ fnOut' = [done |-> TRUE, val |-> timestampToSeconds(formatSecondsToTimestamp(n))]
    /\ UNCHANGED otherThanFn

InitRoundTrip ==
    /\ FnIdle
    /\ BaseIdle
    /\ OptionsIdle
    /\ MigrateIdle
    /\ HandIdle
    /\ ScrollIdle
    /\ LateIdle

SpecRoundTrip == InitRoundTrip /\ [][CallRoundTrip]_vars

\* C23: for every n from 0 to 359999, timestampToSeconds applied to
\* formatSecondsToTimestamp(n) is the number n (returned as its decimal
\* string).
C23_TimestampRoundTrip ==
    fnOut.done => /\ parseInt(fnOut.val) = fnIn
                  /\ Len(fnOut.val) <= 6
                  /\ \A i \in 1..Len(fnOut.val) : \E d \in 1..10 : DigitChars[d] = fnOut.val[i]

\* 359999 seconds (99:59:59) came back.
C23_Witness ==
    /\ fnOut.done
    /\ fnIn = 359999
    /\ fnOut.val = <<"3", "5", "9", "9", "9", "9">>

(***************************************************************************)
(* The four DOM extractors of TranscriptUtils.  A DOM segment is            *)
(* [ts, text]: the text of its timestamp element (<<>>: none) and its      *)
(* text, given as [prefix, rest]: the first 50 characters and what follows *)
(* (prefix "": the segment has no text).                                   *)
(***************************************************************************)
\* Longest list of DOM segments extracted.
MaxSegments == 3

Extractors == {"youtube", "udemy", "coursera", "datacamp"}

SegmentTimestamps ==
    {<<>>, <<"0", ":", "0", "5">>, <<"0", ":", "0", "7">>, <<"1", ":", "0", "0">>,
     <<"1", ":", "0", "0", ":", "0", "5">>}

SegmentTexts ==
    {[prefix |-> "", rest |-> ""], [prefix |-> "p1", rest |-> "x"],
     [prefix |-> "p1", rest |-> "y"], [prefix |-> "p2", rest |-> "x"]}

DomSegments == [ts : SegmentTimestamps, text : SegmentTexts]

SegmentLists == UNION {[1..n -> DomSegments] : n \in 0..MaxSegments}

\* `${timestamp}|${text.substring(0, 50)}`
keyOf(timestamp, text) == <<timestamp, text.prefix>>

\* YouTube: seenMap keeps the first segment of each key, in insertion order;
\* start is parseFloat(timestampToSeconds(timestamp)) || 0.
RECURSIVE youtubeSeen(_, _)
youtubeSeen(segments, seen) ==
    IF segments = <<>> THEN seen
    ELSE LET g == Head(segments)
             item == [timestamp |-> g.ts, text |-> g.text,
                      start |-> parseInt(timestampToSeconds(g.ts))]
         IN  IF g.text.prefix # ""
                /\ \A i \in 1..Len(seen) :
                     keyOf(seen[i].timestamp, seen[i].text) # keyOf(g.ts, g.text)
             THEN youtubeSeen(Tail(segments), Append(seen, item))
             ELSE youtubeSeen(Tail(segments), seen)

\* Array.prototype.sort((a, b) => a.start - b.start): stable.
RECURSIVE sortByStart(_)
sortByStart(items) ==
    IF items = <<>> THEN items
    ELSE LET rest == sortByStart(Tail(items))
             x == Head(items)
             k == Cardinality({i \in 1..Len(rest) : rest[i].start < x.start})
         IN  SubSeq(rest, 1, k) \o <<x>> \o SubSeq(rest, k + 1, Len(rest))

\* getRawTranscriptFromDom (YouTube): dedupe, sort, start as a string.
getRawTranscriptFromDom(segments) ==
    LET sorted == sortByStart(youtubeSeen(segments, <<>>))
    IN  [i \in 1..Len(sorted) |-> [sorted[i] EXCEPT !.start = toString(@)]]

\* The timestamp an extractor reads off the timestamp element: Udemy tests
\* /^\d{1,2}:\d{2}(:\d{2})?$/, Coursera takes the match of
\* /\d{1,2}:\d{2}(:\d{2})?/, DataCamp takes group 1 of /^(\d{1,2}:\d{2})/.
readTimestamp(extractor, ts) ==
    IF extractor = "datacamp" /\ Len(ts) > 4 THEN SubSeq(ts, 1, 4) ELSE ts

\* getRawUdemyTranscriptFromDom, getRawCourseraTranscriptFromDom,
\* getRawDataCampTranscriptFromDom: one item per segment with text, in DOM
\* order; without a timestamp, index * step after index++ stands in.
RECURSIVE pushItems(_, _, _, _)
pushItems(extractor, segments, index, step) ==
    IF segments = <<>> THEN <<>>
    ELSE LET g == Head(segments)
             timestamp == readTimestamp(extractor, g.ts)
         IN  IF g.text.prefix = ""
             THEN pushItems(extractor, Tail(segments), index, step)
             ELSE <<[timestamp |-> IF timestamp # <<>> THEN timestamp
                                   ELSE formatSecondsToTimestamp((index + 1) * step),
                     text |-> g.text,
                     start |-> IF timestamp # <<>> THEN timestampToSeconds(timestamp)
                               ELSE toString((index + 1) * step)]>>
                  \o pushItems(extractor, Tail(segments), index + 1, step)

\* The raw items an extractor produces from the DOM segments.
extract(extractor, segments) ==
    IF extractor = "youtube" THEN getRawTranscriptFromDom(segments)
    ELSE pushItems(extractor, segments, 0, IF extractor = "udemy" THEN 5 ELSE 30)

InitExtract ==
    /\ fnIn \in [extractor : Extractors, segments : SegmentLists]
    /\ fnOut = [done |-> FALSE, val |-> <<>>]
    /\ BaseIdle
    /\ OptionsIdle
    /\ MigrateIdle
    /\ HandIdle
    /\ ScrollIdle
    /\ LateIdle

\* The extractor runs on the segments in the DOM.
CallExtract ==
    /\ ~fnOut.done
    /\ fnOut' = [done |-> TRUE, val |-> extract(fnIn.extractor, fnIn.segments)]
    /\ UNCHANGED fnIn
    /\ UNCHANGED otherThanFn

SpecExtract == InitExtract /\ [][CallExtract]_vars

\* C24: the items an extractor produces are in non-decreasing order of
\* their start offset.
C24_ExtractorsSorted ==
    fnOut.done =>
        \A i \in 1..Len(fnOut.val), j \in 1..Len(fnOut.val) :
            i < j => parseInt(fnOut.val[i].start) <= parseInt(fnOut.val[j].start)

\* The segments with text, and their (timestamp text, text prefix) pairs.
withText(segments) == SelectSeq(segments, LAMBDA g : g.text.prefix # "")
pairsOf(segments) == {keyOf(segments[i].ts, segments[i].text) : i \in 1..Len(segments)}

\* C25: the output has exactly one item for each (timestamp text, text
\* prefix) pair occurring among the segments with text, and that item
\* carries the text of the pair's first occurrence.
C25_ExtractorsDedupe ==
    fnOut.done =>
        LET segs == withText(fnIn.segments)
            out == fnOut.val
        IN  /\ Len(out) = Cardinality(pairsOf(segs))
            /\ \A q \in pairsOf(segs) :
                 LET first == CHOOSE i \in 1..Len(segs) :
                                /\ keyOf(segs[i].ts, segs[i].text) = q
                                /\ \A j \in 1..(i - 1) : keyOf(segs[j].ts, segs[j].text) # q
                 IN  \E k \in 1..Len(out) : out[k].text = segs[first].text

(***************************************************************************)
(* scrollToLoadAllSegments: the scroll loop over YouTube's virtualized     *)
(* transcript list.  The host decides, in every iteration, the list's      *)
(* scroll height and whether the scroll position is at the bottom.         *)
(***************************************************************************)
\* The scroll heights the list takes.
MaxHeight == 2

maxScrollAttempts == 500

ScrollHeights == 1..MaxHeight

\* scrollToLoadAllSegments is called; without a visible container it
\* returns null at once.
ScrollStart(found) ==
    /\ scroll.pc = "idle"
    /\ scroll' = [scroll EXCEPT !.pc = IF found THEN "loop" ELSE "done", !.found = found]
    /\ UNCHANGED otherThanScroll

\* One iteration of the for loop: scroll, sleep, test atBottom, compare the
\* height with previousScrollHeight, record the height.  unchanged counts the
\* latest consecutive iterations that saw the height of the iteration before.
ScrollIteration(atBottom, scrollHeight) ==
    /\ scroll.pc = "loop"
    /\ scroll.i < maxScrollAttempts
    /\ LET same == scrollHeight = scroll.previousScrollHeight
           stableRounds == IF atBottom
                           THEN IF same THEN scroll.stableRounds + 1 ELSE 0
                           ELSE scroll.stableRounds
           break == atBottom /\ same /\ stableRounds >= 3
       IN  scroll' = [scroll EXCEPT
                        !.stableRounds = stableRounds,
                        !.unchanged = IF same THEN IF @ < 3 THEN @ + 1 ELSE 3 ELSE 0,
                        !.previousScrollHeight = IF break THEN @ ELSE scrollHeight,
                        !.i = IF break THEN @ ELSE @ + 1,
                        !.pc = IF break THEN "done" ELSE "loop"]
    /\ UNCHANGED otherThanScroll

\* i reached maxScrollAttempts: the loop is left.
ScrollExhausted ==
    /\ scroll.pc = "loop"
    /\ scroll.i >= maxScrollAttempts
    /\ scroll' = [scroll EXCEPT !.pc = "done"]
    /\ UNCHANGED otherThanScroll

InitScroll ==
    /\ ScrollIdle
    /\ LateIdle
    /\ BaseIdle
    /\ OptionsIdle
    /\ MigrateIdle
    /\ FnIdle
    /\ HandIdle

NextScroll ==
    \/ \E found \in BOOLEAN : ScrollStart(found)
    \/ \E atBottom \in BOOLEAN, h \in ScrollHeights : ScrollIteration(atBottom, h)
    \/ ScrollExhausted

SpecScroll == InitScroll /\ [][NextScroll]_vars

\* C26: the scroll loop performs at most 500 iterations, and when it stops
\* before that, the scroll height was the same in the three latest
\* consecutive checks: a height change in between would have reset the count.
C26_ScrollLoopBounded ==
    /\ scroll.i <= maxScrollAttempts
    /\ (scroll.pc = "done" /\ scroll.found /\ scroll.i < maxScrollAttempts
          => scroll.unchanged >= 3)

\* The iteration bound alone.
ScrollIterationsBounded == scroll.i <= maxScrollAttempts

(***************************************************************************)
(* generatePrompt.  A text is a sequence of symbols: a placeholder token,  *)
(* the replacement pattern "$&", or a piece of plain text.                 *)
(***************************************************************************)
\* Longest template substituted.
MaxTemplateLen == 3

PlaceholderTokens == {"{{Title}}", "{{URL}}", "{{Transcript}}"}

TemplateTexts == UNION {[1..n -> PlaceholderTokens \cup {"x"}] : n \in 0..MaxTemplateLen}

\* data: title, url and transcript; <<>> is a missing (or empty) value.
PromptData ==
    [title : {<<>>, <<"t">>, <<"{{URL}}">>, <<"{{Transcript}}">>, <<"$&">>},
     url : {<<>>, <<"u">>, <<"{{Title}}">>, <<"{{Transcript}}">>},
     transcript : {<<>>, <<"s">>, <<"{{Title}}">>}]

\* value || fallback
orFallback(value, fallback) == IF value = <<>> THEN <<fallback>> ELSE value

\* The replacement string of String.prototype.replace: "$&" stands for the
\* matched text.
RECURSIVE expandReplacement(_, _)
expandReplacement(value, matched) ==
    IF value = <<>> THEN <<>>
    ELSE <<IF Head(value) = "$&" THEN matched ELSE Head(value)>>
         \o expandReplacement(Tail(value), matched)

\* text.replace(/token/g, value)
RECURSIVE replace(_, _, _)
replace(text, token, value) ==
    IF text = <<>> THEN <<>>
    ELSE (IF Head(text) = token THEN expandReplacement(value, token) ELSE <<Head(text)>>)
         \o replace(Tail(text), token, value)

\* generatePrompt(template, data): three replace calls, one after the other.
generatePrompt(template, data) ==
    LET p1 == replace(template, "{{Title}}", orFallback(data.title, "Unknown Title"))
        p2 == replace(p1, "{{URL}}", data.url)
        p3 == replace(p2, "{{Transcript}}",
                      orFallback(data.transcript, "No transcript available"))
    IN  p3

InitPrompt ==
    /\ fnIn \in [template : TemplateTexts, data : PromptData]
    /\ fnOut = [done |-> FALSE, val |-> <<>>]
    /\ BaseIdle
    /\ OptionsIdle
    /\ MigrateIdle
    /\ HandIdle
    /\ ScrollIdle
    /\ LateIdle

CallGeneratePrompt ==
    /\ ~fnOut.done
    /\ fnOut' = [done |-> TRUE, val |-> generatePrompt(fnIn.template, fnIn.data)]
    /\ UNCHANGED fnIn
    /\ UNCHANGED otherThanFn

SpecPrompt == InitPrompt /\ [][CallGeneratePrompt]_vars

\* The template with every token replaced, in one pass, by the literal value
\* (or the fallback of a missing value).
RECURSIVE substituteOnce(_, _)
substituteOnce(template, data) ==
    IF template = <<>> THEN <<>>
    ELSE LET h == Head(template)
         IN  (CASE h = "{{Title}}" -> orFallback(data.title, "Unknown Title")
                [] h = "{{URL}}" -> data.url
                [] h = "{{Transcript}}" ->
                       orFallback(data.transcript, "No transcript available")
                [] OTHER -> <<h>>)
             \o substituteOnce(Tail(template), data)

\* C27: the generated prompt is the template with every {{Title}}, {{URL}}
\* and {{Transcript}} token replaced once by the value (or its fallback),
\* the value inserted literally and never expanded again.
C27_SinglePassSubstitution ==
    fnOut.done => fnOut.val = substituteOnce(fnIn.template, fnIn.data)

\* The same, for values that contain neither a token nor a replacement pattern.
PlainValuesSubstituted ==
    fnOut.done /\ fnIn.data.title \in {<<>>, <<"t">>} /\ fnIn.data.url \in {<<>>, <<"u">>}
               /\ fnIn.data.transcript \in {<<>>, <<"s">>}
        => fnOut.val = substituteOnce(fnIn.template, fnIn.data)

\* C28: a failure of the pause step never aborts the activation: no
\* activation ends with pauseVideo's exception leaving the click handler.
C28_PauseFailureNeverAborts == act.ended # "escaped"

\* C29: when the storage write of the pending record has rejected, the
\* activation has ended in the handler's catch: error toast, button
\* clickable, no tab opened, no record of this activation in storage, and
\* the prompt copied earlier still on the clipboard.
C29_WriteRejectionCaught ==
    act.writeRejected =>
        /\ cpc = "idle"
        /\ act.ended = "error"
        /\ act.toast = "error"
        /\ ~btnDisabled
        /\ ~act.opened
        /\ act.wrote = 0
        /\ pending # pendingRecord(cPrompt, platform)
        /\ (act.copyOk => clipboard = cPrompt)

\* A write was rejected after the prompt had reached the clipboard.
C29_Witness ==
    /\ act.writeRejected
    /\ act.copyOk
    /\ clipboard = cPrompt
    /\ act.toast = "error"
    /\ ~btnDisabled

\* C30: when the settings read of an activation has rejected, the activation
\* has ended with an error toast, without a record written or a tab opened.
C30_ReadRejectionSurfaced ==
    act.readRejected =>
        /\ act.ended = "error"
        /\ act.toast = "error"
        /\ act.wrote = 0
        /\ ~act.opened

\* The weaker statement that no hand-off follows a rejected settings read.
NoHandoffAfterReadRejection == act.readRejected => act.wrote = 0 /\ ~act.opened

(***************************************************************************)
(* Button insertion with fairness: a pending insertion timer fires and a   *)
(* queued MutationObserver callback runs.  Nothing is assumed about the    *)
(* host page (HostMutatesDom, Navigate).                                   *)
(***************************************************************************)
SpecInsertFair ==
    /\ InitInsert
    /\ [][NextInsert]_vars
    /\ WF_vars(InsertTimerFires)
    /\ WF_vars(NavObserverCallback)

\* C31: on a video page, whenever the button is absent and an insertion
\* anchor is present, the button is eventually inserted, unless the anchor
\* goes away or the page is left first.
C31_ButtonEventuallyInserted ==
    (videoPage /\ buttons = 0 /\ anchor # "none")
        ~> (buttons > 0 \/ ~videoPage \/ anchor = "none")

\* The same for the anchors whose strategy puts a button into the document.
ButtonInsertedAtInsertingAnchor ==
    (videoPage /\ buttons = 0 /\ anchor # "none" /\ inserted(platform, anchor) > 0)
        ~> (buttons > 0 \/ ~videoPage \/ anchor = "none" \/ inserted(platform, anchor) = 0)

\* C32: a run that removed the pending record, on any path other than
\* 'global auto-fill disabled', had put the prompt into the input element,
\* whatever kind of element the selector list returned.
C32_ClearOnlyAfterTextSet ==
    \A r \in Runs :
        (run[r].cleared /\ run[r].ended # "disabled") => run[r].textSet

\* The same for runs on which the injection step has set the element's text.
ClearedAfterInjectionStep ==
    \A r \in Runs :
        (run[r].cleared /\ run[r].ended # "disabled") => run[r].injected

\* C33: a provider function's clear removes from storage only the record
\* its run has read (and injected): it never deletes a newer record that an
\* activation wrote while the run was waiting for its input widget.
C33_NoHandoffLostToStaleAgent ==
    [][\A r \in Runs :
         (apc[r] = "clearing" /\ apc'[r] # "clearing" /\ pending # NoPending
            /\ pending' = NoPending)
           => pending.id = aResult[r].pending.id]_vars

(***************************************************************************)
(* Activations in flight on one content page: the button element in the    *)
(* document, the host's re-render, the observer's re-insertion, and the    *)
(* click handlers, each bound to the element it was clicked on.            *)
(***************************************************************************)
\* The awaits of handleSummaryClick, in order.
HandlerAwaits == <<"settings", "transcript", "prompt", "copy", "bridge">>

\* attemptButtonInsertion (initial timer or observer callback) finds no
\* button and an anchor: createButton() makes a new, enabled element with
\* its own click listener.
FlightInsert ==
    /\ flight.btn = 0
    /\ flight.created < MaxButtons
    /\ flight' = [flight EXCEPT !.btn = flight.created + 1, !.created = @ + 1]
    /\ UNCHANGED otherThanLate
    /\ UNCHANGED dash

\* The host page re-renders its player and drops the button element.
FlightRerender ==
    /\ flight.btn # 0
    /\ flight' = [flight EXCEPT !.btn = 0]
    /\ UNCHANGED otherThanLate
    /\ UNCHANGED dash

\* A click on the button in the document (a disabled button dispatches no
\* click): pauseVideo(); _setButtonLoading(btn, true); up to the first await.
FlightClick ==
    /\ flight.btn # 0
    /\ ~flight.disabled[flight.btn]
    /\ flight' = [flight EXCEPT !.disabled[flight.btn] = TRUE,
                                !.pc[flight.btn] = HandlerAwaits[1]]
    /\ UNCHANGED otherThanLate
    /\ UNCHANGED dash

\* The handler bound to element b passes its next await, or returns (empty
\* transcript, catch, "Copied!", or the 500 ms timer after "Opening AI"):
\* _setButtonLoading(btn, false) on the element it was clicked on.
FlightStep(b) ==
    /\ flight.pc[b] # "none"
    /\ \E returns \in BOOLEAN :
         LET k == CHOOSE i \in 1..Len(HandlerAwaits) : HandlerAwaits[i] = flight.pc[b]
         IN  IF returns \/ k = Len(HandlerAwaits)
             THEN flight' = [flight EXCEPT !.pc[b] = "none", !.disabled[b] = FALSE]
             ELSE flight' = [flight EXCEPT !.pc[b] = HandlerAwaits[k + 1]]
    /\ UNCHANGED otherThanLate
    /\ UNCHANGED dash

InitFlight ==
    /\ BaseIdle
    /\ RestIdle

NextFlight ==
    \/ FlightInsert
    \/ FlightRerender
    \/ FlightClick
    \/ \E b \in ButtonElems : FlightStep(b)

SpecFlight == InitFlight /\ [][NextFlight]_vars

\* C34: at most one activation is in flight on the page.
C34_OneActivationInFlight ==
    Cardinality({b \in ButtonElems : flight.pc[b] # "none"}) <= 1

\* While the clicked button stays in the document, no second activation starts.
OneActivationPerElement ==
    [][\A b \in ButtonElems : flight.pc[b] # "none" /\ flight.btn = b /\ flight'.btn = b
          => \A c \in ButtonElems : flight.pc[c] = "none" => flight'.pc[c] = "none"]_vars

\* C35: on the adapters with unbounded retry at most one insertion-retry
\* timer is pending.
C35_RetryTimersDoNotMultiply ==
    platform # "datacamp" => retryTimers <= 1

(***************************************************************************)
(* Background service worker: the icon-click listener (each run of it a    *)
(* click handler), the windows it creates and the onRemoved listener.      *)
(* dashboardWindowId 0 stands for null.                                    *)
(***************************************************************************)
\* chrome.action.onClicked: if (dashboardWindowId !== null) the handler
\* awaits chrome.windows.update(dashboardWindowId, ...); otherwise it awaits
\* chrome.windows.create(WINDOW_CONFIG).
IconClick(h) ==
    /\ dash.hpc[h] = "idle"
    /\ dash' = IF dash.dashboardWindowId # 0
               THEN [dash EXCEPT !.hpc[h] = "focusing", !.win[h] = dash.dashboardWindowId]
               ELSE [dash EXCEPT !.hpc[h] = "creating"]
    /\ UNCHANGED otherThanLate
    /\ UNCHANGED flight

\* windows.update settles: the window exists and is focused (return), or it
\* does not (catch: dashboardWindowId = null, then create).
FocusSettles(h) ==
    /\ dash.hpc[h] = "focusing"
    /\ dash' = IF dash.win[h] \in dash.open
               THEN [dash EXCEPT !.hpc[h] = "idle", !.win[h] = 0]
               ELSE [dash EXCEPT !.hpc[h] = "creating", !.win[h] = 0,
                                 !.dashboardWindowId = 0]
    /\ UNCHANGED otherThanLate
    /\ UNCHANGED flight

\* windows.create settles and the handler resumes: the browser has opened a
\* window and dashboardWindowId = window.id, or the call rejects (catch:
\* logged).  The worker receives the reply before any later event of that
\* window.
CreateSettles(h) ==
    /\ dash.hpc[h] = "creating"
    /\ \E ok \in BOOLEAN :
         /\ ok => dash.created < MaxWindows
         /\ dash' = IF ok
                    THEN [dash EXCEPT !.hpc[h] = "idle",
                                      !.created = @ + 1,
                                      !.open = @ \cup {dash.created + 1},
                                      !.dashboardWindowId = dash.created + 1]
                    ELSE [dash EXCEPT !.hpc[h] = "idle"]
    /\ UNCHANGED otherThanLate
    /\ UNCHANGED flight

\* The user closes window w; chrome.windows.onRemoved:
\* if (windowId === dashboardWindowId) dashboardWindowId = null.
WindowRemoved(w) ==
    /\ w \in dash.open
    /\ dash' = [dash EXCEPT !.open = @ \ {w},
                            !.dashboardWindowId = IF @ = w THEN 0 ELSE @]
    /\ UNCHANGED otherThanLate
    /\ UNCHANGED flight

InitDash ==
    /\ BaseIdle
    /\ RestIdle

NextDash ==
    \/ \E h \in ClickHandlers :
         \/ IconClick(h)
         \/ FocusSettles(h)
         \/ CreateSettles(h)
    \/ \E w \in 1..MaxWindows : WindowRemoved(w)

SpecDash == InitDash /\ [][NextDash]_vars

\* C36: at most one dashboard window is open, and dashboardWindowId is null
\* or the id of the one open dashboard window.
C36_DashboardSingleton ==
    /\ Cardinality(dash.open) <= 1
    /\ (dash.dashboardWindowId = 0 \/ dash.open = {dash.dashboardWindowId})

\* A click while the tracked window is open focuses it instead of creating
\* another.
ClickFocusesTrackedWindow ==
    [][\A h \in ClickHandlers :
         (dash.hpc[h] = "idle" /\ dash'.hpc[h] # "idle"
            /\ dash.dashboardWindowId \in dash.open)
           => dash'.hpc[h] = "focusing" /\ dash'.open = dash.open]_vars

\* C37: globalPromptId and the promptId of each service in storage reference
\* a template of the stored prompts list.
C37_PromptReferencesValid ==
    /\ stGlobal \in idsOf(stPrompts)
    /\ \A s \in Platforms : stService[s] \in idsOf(stPrompts)

(***************************************************************************)
(* DataCamp: what a successful attemptButtonInsertion leaves behind.        *)
(***************************************************************************)
\* A run of attemptButtonInsertion on DataCamp, from a timer or from the
\* observer, that gets past the guards, finds the anchor of one of its
\* strategies and returns with _retryCount = 0 and no retry scheduled.
DataCampAttemptSucceeds ==
    /\ InsertTimerFires \/ NavObserverCallback
    /\ platform = "datacamp"
    /\ videoPage /\ ~buttonExists /\ anchor # "none"
    /\ retryCount' = 0
    /\ retryTimers' <= retryTimers

\* C38: on DataCamp, whenever attemptButtonInsertion ends by reporting
\* success (retry counter reset to 0, no retry scheduled), a button with the
\* adapter's button id is in the DOM, for each of the five strategies and
\* also for the video-header strategy when the header contains no div.
C38_SuccessMeansButtonPresent ==
    [][DataCampAttemptSucceeds => buttons' > 0]_vars

\* The part of C38 that holds: every strategy other than the video header
\* without a div leaves the button in the DOM.
OtherStrategiesInsert ==
    [][DataCampAttemptSucceeds /\ anchor # "videoHeaderNoDiv" => buttons' > 0]_vars

\* A DataCamp page on which a strategy has just put the button in.
OtherStrategiesInsert_Witness ==
    /\ platform = "datacamp"
    /\ buttons > 0
    /\ anchor \in AnchorsOf("datacamp") \ {"videoHeaderNoDiv"}
    /\ retryCount = 0

=============================================================================
